---- MODULE Spec2Model ----
(***************************************************************************)
(* State-machine model of the infinite-canvas whiteboard:                  *)
(*   - the Shape Store (hook useShapes, src/unnamed/part_001),              *)
(*   - the canvas component and its gesture callbacks                       *)
(*     (InfiniteCanvas / ResizeHandle / ShapeOverlay, src/unnamed/part_000, *)
(*     and src/components/CanvasModule/ShapeOverlay.tsx).                   *)
(* Numbers are modelled as integers (world and screen units); the camera   *)
(* scale is counted in fifths, so that 0.2 is 1, 1 is 5 and 5 is 25.        *)
(***************************************************************************)
EXTENDS Integers, Sequences, FiniteSets, TLC

VARIABLES
  shapes,        \* useState<Shape[]>            (part_001:28)
  selectedId,    \* useState<string | null>      (part_001:65)
  draggingId,    \* useState<string | null>      (part_001:66)
  resizingRef,   \* useRef<{id, corner}>         (part_001:69)
  isResizing,    \* useState(false)              (part_001:73)
  steps,         \* number of store calls / touches so far (bounds the runs)
  moves,         \* number of movement events so far (bounds the runs)
  cam,           \* useState<Camera>             (part_000:66)
  editingId,     \* useState<string | null>      (part_000:86)
  selectedIds,   \* useState<Set<string>>        (part_000:93)
  overlayImpl,   \* which ShapeOverlay component the canvas renders
  panState,      \* per shape id: state of the overlay's PanGestureHandler
  last,          \* per shape id: the overlay's ref last / lastXY
  didDrag,       \* per shape id: the overlay's ref didDrag
  handleState,   \* per corner: state of the mounted ResizeHandle's PanGestureHandler
  lastAbs,       \* per corner: the mounted ResizeHandle's ref lastAbs
  overlayHandleWaitFor, \* prop handleWaitFor of the overlays (part_000:690)
  handleWaitFor,        \* useMemo handleWaitFor      (part_000:176)
  allInteractiveRefs,   \* useMemo allInteractiveRefs (part_000:180)
  selectMode,    \* useState(false)              (part_000:90)
  marquee,       \* useState<Marquee>            (part_000:96)
  marqueeState,  \* state of the marquee PanGestureHandler (part_000:381)
  armed,         \* tap and long-press recognizers that track a touch and have not fired
  touch,         \* the touch that landed last: where, and which recognizers it activated
  pending,       \* BEGAN callbacks of the touch that landed, not yet delivered
  mounted,       \* the canvas component is mounted
  canvasImpl,    \* which InfiniteCanvas component is mounted
  canvasPanState, \* state of the canvas PanGestureHandler   (part_000:371)
  panStart,      \* useRef({ tx: 0, ty: 0 })     (part_000:191)
  pinchState,    \* state of the PinchGestureHandler         (part_000:364)
  pinchStart     \* useRef({ scale: 1 })         (part_000:212)

storeVars == <<shapes, selectedId, draggingId, resizingRef, isResizing>>

\* the canvas gesture recognizers and their refs
camGesture == <<canvasImpl, canvasPanState, panStart, pinchState, pinchStart>>

canvasVars ==
  <<cam, editingId, selectedIds, overlayImpl, panState, last, didDrag,
    handleState, lastAbs, overlayHandleWaitFor, handleWaitFor, allInteractiveRefs,
    selectMode, marquee, marqueeState, armed, touch, pending, mounted,
    canvasImpl, canvasPanState, panStart, pinchState, pinchStart>>

vars ==
  <<shapes, selectedId, draggingId, resizingRef, isResizing, steps, moves,
    cam, editingId, selectedIds, overlayImpl, panState, last, didDrag,
    handleState, lastAbs, overlayHandleWaitFor, handleWaitFor, allInteractiveRefs,
    selectMode, marquee, marqueeState, armed, touch, pending, mounted,
    canvasImpl, canvasPanState, panStart, pinchState, pinchStart>>

\* ------------------------------------------------------------------ bounds
\* the camera scale is counted in units of 1 / ScaleUnit
ScaleUnit == 5

\* calls of Shape Store operations in one run of StoreSpec
MaxCalls == 3

\* touches (gestures begun, taps, long presses, toolbar presses) in one run of Spec
MaxTouches == 2

\* movement events in one run of CameraSpec
MaxCamMoves == 2

\* movement events of gestures in one run of Spec
MaxMoves == 1

\* world deltas offered to dragBy / resizeBy: small moves and moves large
\* enough to push every initial shape past the minimum size
Delta == { <<30, -10>>, <<-200, -200>>, <<200, 200>> }

\* ------------------------------------------------------------ JS values
\* null (string | null)
NULL == "<null>"

\* JS truthiness of a string | null value: null and "" are falsy
Truthy(v) == v # NULL /\ v # ""

\* partial.f ?? dflt, a partial being a record holding only the given fields
OrElse(partial, f, dflt) == IF f \in DOMAIN partial THEN partial[f] ELSE dflt

Max(a, b) == IF a >= b THEN a ELSE b

\* NaN as a coordinate, translation or length: a number that no event and no
\* shape of the model has otherwise
NotANumber == 1000000

\* Number.isFinite
IsFinite(v) == v # NotANumber

\* a + b, a - b, a * b, Math.max(a, b), Math.min(a, b), a >= b and a <= b of
\* JS numbers: NaN if an operand is NaN, a comparison with NaN being false
Plus(a, b) == IF IsFinite(a) /\ IsFinite(b) THEN a + b ELSE NotANumber

Minus(a, b) == IF IsFinite(a) /\ IsFinite(b) THEN a - b ELSE NotANumber

Times(a, b) == IF IsFinite(a) /\ IsFinite(b) THEN a * b ELSE NotANumber

MathMax(a, b) == IF IsFinite(a) /\ IsFinite(b) THEN Max(a, b) ELSE NotANumber

MathMin(a, b) == IF ~IsFinite(a) \/ ~IsFinite(b) THEN NotANumber ELSE IF a <= b THEN a ELSE b

AtLeast(a, b) == IsFinite(a) /\ IsFinite(b) /\ a >= b

AtMost(a, b) == IsFinite(a) /\ IsFinite(b) /\ a <= b

Corner == {"nw", "ne", "se", "sw"}

MIN_W == 20
MIN_H == 20

\* ------------------------------------------------------------ Shape Store
InitialShapes ==
  << [id |-> "r1", kind |-> "rect", x |-> -120, y |-> -80, w |-> 160, h |-> 100,
      fill |-> "#EEF2FF", stroke |-> "#6376F1", strokeWidth |-> 2, text |-> "Rect"],
     [id |-> "e1", kind |-> "ellipse", x |-> 120, y |-> 40, w |-> 140, h |-> 90,
      fill |-> "#FFF7ED", stroke |-> "#F59E0B", strokeWidth |-> 2, text |-> "Ellipse"],
     [id |-> "t1", kind |-> "text", x |-> -40, y |-> 120, w |-> 220, h |-> 40,
      text |-> "Hello RN", fontSize |-> 18, color |-> "#111827"] >>

\* the hook's state as one value
Store ==
  [shapes |-> shapes, selectedId |-> selectedId, draggingId |-> draggingId,
   resizingRef |-> resizingRef, isResizing |-> isResizing]

InitialStore ==
  [shapes |-> InitialShapes, selectedId |-> NULL, draggingId |-> NULL,
   resizingRef |-> [id |-> NULL, corner |-> NULL], isResizing |-> FALSE]

select(st, id) == [st EXCEPT !.selectedId = id]

beginDrag(st, id) == [st EXCEPT !.draggingId = id]

\* dragBy that forgets to test the shape's id: every shape moves
dragBy_NoIdFilter(st, dx, dy) ==
  IF ~Truthy(st.draggingId) THEN st
  ELSE [st EXCEPT !.shapes =
          [i \in DOMAIN st.shapes |->
             [st.shapes[i] EXCEPT !.x = @ + dx, !.y = @ + dy]]]

\* dragBy that falls back to the selected shape when no drag session is open
dragBy_UsesSelection(st, dx, dy) ==
  LET target == IF Truthy(st.draggingId) THEN st.draggingId ELSE st.selectedId IN
  [st EXCEPT !.shapes =
     [i \in DOMAIN st.shapes |->
        IF st.shapes[i].id = target
        THEN [st.shapes[i] EXCEPT !.x = @ + dx, !.y = @ + dy]
        ELSE st.shapes[i]]]

dragBy(st, dx, dy) ==
  IF ~Truthy(st.draggingId) THEN st
  ELSE [st EXCEPT !.shapes =
          [i \in DOMAIN st.shapes |->
             IF st.shapes[i].id = st.draggingId
             THEN [st.shapes[i] EXCEPT !.x = Plus(@, dx), !.y = Plus(@, dy)]
             ELSE st.shapes[i]]]

endDrag(st) == [st EXCEPT !.draggingId = NULL]

\* id chosen by add*: partial.id ?? `<kind>_${Math.random().toString(36).slice(2, 9)}`
\* (rnd is the random suffix)
newId(prefix, partial, rnd) == OrElse(partial, "id", prefix \o rnd)

newRect(partial, rnd) ==
  [id |-> newId("rect_", partial, rnd), kind |-> "rect",
   x |-> OrElse(partial, "x", 0), y |-> OrElse(partial, "y", 0),
   w |-> OrElse(partial, "w", 160), h |-> OrElse(partial, "h", 100),
   fill |-> OrElse(partial, "fill", "#ffffff"),
   stroke |-> OrElse(partial, "stroke", "#111111"),
   strokeWidth |-> OrElse(partial, "strokeWidth", 2),
   text |-> OrElse(partial, "text", "Rect")]

newEllipse(partial, rnd) ==
  [id |-> newId("ellipse_", partial, rnd), kind |-> "ellipse",
   x |-> OrElse(partial, "x", 0), y |-> OrElse(partial, "y", 0),
   w |-> OrElse(partial, "w", 140), h |-> OrElse(partial, "h", 90),
   fill |-> OrElse(partial, "fill", "#ffffff"),
   stroke |-> OrElse(partial, "stroke", "#111111"),
   strokeWidth |-> OrElse(partial, "strokeWidth", 2),
   text |-> OrElse(partial, "text", "Ellipse")]

newText(partial, rnd) ==
  [id |-> newId("text_", partial, rnd), kind |-> "text",
   x |-> OrElse(partial, "x", 0), y |-> OrElse(partial, "y", 0),
   w |-> OrElse(partial, "w", 200), h |-> OrElse(partial, "h", 40),
   text |-> OrElse(partial, "text", "New text"),
   fontSize |-> OrElse(partial, "fontSize", 18),
   color |-> OrElse(partial, "color", "#111827")]

\* setShapes((prev) => [...prev, s]); the returned id is that of the last shape
\* addRect that puts the new shape first
addRect_Prepend(st, partial, rnd) ==
  [st EXCEPT !.shapes = <<newRect(partial, rnd)>> \o @]

addRect(st, partial, rnd) == [st EXCEPT !.shapes = Append(@, newRect(partial, rnd))]

addEllipse(st, partial, rnd) == [st EXCEPT !.shapes = Append(@, newEllipse(partial, rnd))]

addText(st, partial, rnd) == [st EXCEPT !.shapes = Append(@, newText(partial, rnd))]

\* setShapeText that fills in a missing text only
setShapeText_KeepsText(st, id, text) ==
  [st EXCEPT !.shapes =
     [i \in DOMAIN st.shapes |->
        IF st.shapes[i].id = id /\ st.shapes[i].text = ""
        THEN [st.shapes[i] EXCEPT !.text = text]
        ELSE st.shapes[i]]]

setShapeText(st, id, text) ==
  [st EXCEPT !.shapes =
     [i \in DOMAIN st.shapes |->
        IF st.shapes[i].id = id THEN [st.shapes[i] EXCEPT !.text = text]
        ELSE st.shapes[i]]]

\* beginResize that writes the ref and forgets setIsResizing(true)
beginResize_NoFlag(st, id, corner) ==
  [st EXCEPT !.resizingRef = [id |-> id, corner |-> corner]]

beginResize(st, id, corner) ==
  [st EXCEPT !.resizingRef = [id |-> id, corner |-> corner], !.isResizing = TRUE]

\* resizeShape without the Math.max floors
resizeShape_NoClamp(s, corner, dx, dy) ==
  IF corner = "se" THEN [s EXCEPT !.w = s.w + dx, !.h = s.h + dy]
  ELSE IF corner = "sw" THEN [s EXCEPT !.x = s.x + dx, !.w = s.w - dx, !.h = s.h + dy]
  ELSE IF corner = "ne" THEN [s EXCEPT !.y = s.y + dy, !.w = s.w + dx, !.h = s.h - dy]
  ELSE [s EXCEPT !.x = s.x + dx, !.y = s.y + dy, !.w = s.w - dx, !.h = s.h - dy]

\* resizeShape that moves the dragged edge by the raw delta instead of
\* repositioning it from the anchor after the clamp
resizeShape_EdgeFollowsDelta(s, corner, dx, dy) ==
  IF corner = "se" THEN
    [s EXCEPT !.w = Max(MIN_W, s.w + dx), !.h = Max(MIN_H, s.h + dy)]
  ELSE IF corner = "sw" THEN
    [s EXCEPT !.x = s.x + dx, !.w = Max(MIN_W, s.w - dx), !.h = Max(MIN_H, s.h + dy)]
  ELSE IF corner = "ne" THEN
    [s EXCEPT !.y = s.y + dy, !.w = Max(MIN_W, s.w + dx), !.h = Max(MIN_H, s.h - dy)]
  ELSE
    [s EXCEPT !.x = s.x + dx, !.y = s.y + dy,
              !.w = Max(MIN_W, s.w - dx), !.h = Max(MIN_H, s.h - dy)]

\* the body of resizeBy's map callback for the session's shape
resizeShape(s, corner, dx, dy) ==
  IF corner = "se" THEN
    LET newW == MathMax(MIN_W, Plus(s.w, dx))
        newH == MathMax(MIN_H, Plus(s.h, dy))
    IN [s EXCEPT !.w = newW, !.h = newH]
  ELSE IF corner = "sw" THEN
    LET right == Plus(s.x, s.w)
        newW == MathMax(MIN_W, Minus(s.w, dx))
        newX == Minus(right, newW)
        newH == MathMax(MIN_H, Plus(s.h, dy))
    IN [s EXCEPT !.x = newX, !.w = newW, !.h = newH]
  ELSE IF corner = "ne" THEN
    LET bottom == Plus(s.y, s.h)
        newW == MathMax(MIN_W, Plus(s.w, dx))
        newH == MathMax(MIN_H, Minus(s.h, dy))
        newY == Minus(bottom, newH)
    IN [s EXCEPT !.y = newY, !.w = newW, !.h = newH]
  ELSE \* "nw"
    LET right == Plus(s.x, s.w)
        bottom == Plus(s.y, s.h)
        newW == MathMax(MIN_W, Minus(s.w, dx))
        newH == MathMax(MIN_H, Minus(s.h, dy))
        newX == Minus(right, newW)
        newY == Minus(bottom, newH)
    IN [s EXCEPT !.x = newX, !.y = newY, !.w = newW, !.h = newH]

\* resizeBy with the north corners' vertical sign flipped
resizeBy_NorthGrowsDown(st, dx, dy) ==
  LET sess == st.resizingRef IN
  IF ~Truthy(sess.id) \/ ~Truthy(sess.corner) THEN st
  ELSE [st EXCEPT !.shapes =
          [i \in DOMAIN st.shapes |->
             IF st.shapes[i].id # sess.id THEN st.shapes[i]
             ELSE resizeShape(st.shapes[i], sess.corner, dx,
                              IF sess.corner \in {"ne", "nw"} THEN 0 - dy ELSE dy)]]

resizeBy(st, dx, dy) ==
  LET sess == st.resizingRef IN
  IF ~Truthy(sess.id) \/ ~Truthy(sess.corner) THEN st
  ELSE [st EXCEPT !.shapes =
          [i \in DOMAIN st.shapes |->
             IF st.shapes[i].id # sess.id THEN st.shapes[i]
             ELSE resizeShape(st.shapes[i], sess.corner, dx, dy)]]

\* endResize that clears the ref but forgets setIsResizing(false)
endResize_KeepsFlag(st) ==
  [st EXCEPT !.resizingRef = [id |-> NULL, corner |-> NULL]]

endResize(st) ==
  [st EXCEPT !.resizingRef = [id |-> NULL, corner |-> NULL], !.isResizing = FALSE]

\* ------------------------------------------------- Shape Store as a machine
\* arguments offered to the store's operations
RandomSuffix == {"k3x9q1z", "a7m2p0c"}

TinyPartial == [w |-> 5, h |-> 5]

RectPartials == { <<>>, TinyPartial, [id |-> "r1"], [id |-> ""] }

EllipsePartials == { <<>> }

TextPartials == { <<>> }

Texts == {"abc"}

ShapeIds(ss) == { ss[i].id : i \in DOMAIN ss }

\* the ShapeOverlay component rendered by the canvas: the one defined in
\* part_000 (899-1068) or the one of components/CanvasModule/ShapeOverlay.tsx
\* the two revisions of the canvas component: part_000 (select mode, marquee,
\* long press) and components/CanvasModule/InfiniteCanvas.tsx
CanvasImpls == {"part_000", "InfiniteCanvas.tsx"}

OverlayImpls == {"part_000", "ShapeOverlay.tsx"}

\* lastAbs.current = null
NoAbs == <<>>

\* the marquee at rest
NoMarquee == [active |-> FALSE, x0 |-> 0, y0 |-> 0, x1 |-> 0, y1 |-> 0]

\* no touch has landed yet
NoTouch == [target |-> <<"none", "", "">>, marquee |-> FALSE, activated |-> {}, mutated |-> {}]

\* the state after the first render of the canvas component impl, its mount
\* effects and the layout pass: the ref registries were still empty when the
\* wait lists were computed
Mounting(impl) ==
  /\ shapes = InitialStore.shapes
  /\ selectedId = InitialStore.selectedId
  /\ draggingId = InitialStore.draggingId
  /\ resizingRef = InitialStore.resizingRef
  /\ isResizing = InitialStore.isResizing
  /\ steps = 0
  /\ moves = 0
  /\ cam = [tx |-> 0, ty |-> 0, scale |-> ScaleUnit]
  /\ canvasImpl = impl
  /\ canvasPanState = "UNDETERMINED"
  /\ panStart = [tx |-> 0, ty |-> 0]
  /\ pinchState = "UNDETERMINED"
  /\ pinchStart = [scale |-> ScaleUnit]
  /\ editingId = NULL
  /\ selectedIds = {}
  /\ overlayImpl \in OverlayImpls
  /\ panState = [id \in ShapeIds(InitialShapes) |-> "UNDETERMINED"]
  /\ last = [id \in ShapeIds(InitialShapes) |-> <<0, 0>>]
  /\ didDrag = [id \in ShapeIds(InitialShapes) |-> FALSE]
  /\ handleState = [c \in Corner |-> "UNDETERMINED"]
  /\ lastAbs = [c \in Corner |-> NoAbs]
  /\ overlayHandleWaitFor = {}
  /\ handleWaitFor = {}
  /\ allInteractiveRefs = [shapes |-> {}, handles |-> {}]
  /\ selectMode = FALSE
  /\ marquee = NoMarquee
  /\ marqueeState = "UNDETERMINED"
  /\ armed = {}
  /\ touch = NoTouch
  /\ pending = <<>>
  /\ mounted = TRUE

Init == Mounting("part_000")

\* the hook on its own, under the canvas of part_000
StoreInit == Init /\ overlayImpl = "part_000"

\* commit the hook's next state
Commit(st) ==
  /\ shapes' = st.shapes
  /\ selectedId' = st.selectedId
  /\ draggingId' = st.draggingId
  /\ resizingRef' = st.resizingRef
  /\ isResizing' = st.isResizing

\* one call of a store operation, ending in the store state st
Call(st) ==
  /\ steps < MaxCalls
  /\ steps' = steps + 1
  /\ Commit(st)
  /\ UNCHANGED <<moves, canvasVars>>

CallSelect ==
  \E id \in ShapeIds(shapes) \cup {NULL} :
    Call(select(Store, id))

CallBeginDrag ==
  \E id \in ShapeIds(shapes) :
    Call(beginDrag(Store, id))

CallDragBy ==
  \E d \in Delta :
    Call(dragBy(Store, d[1], d[2]))

CallEndDrag == Call(endDrag(Store))

CallAddRect ==
  \E p \in RectPartials, rnd \in RandomSuffix :
    Call(addRect(Store, p, rnd))

CallAddEllipse ==
  \E p \in EllipsePartials, rnd \in RandomSuffix :
    Call(addEllipse(Store, p, rnd))

CallAddText ==
  \E p \in TextPartials, rnd \in RandomSuffix :
    Call(addText(Store, p, rnd))

CallSetShapeText ==
  \E id \in ShapeIds(shapes), t \in Texts :
    Call(setShapeText(Store, id, t))

CallBeginResize ==
  \E id \in ShapeIds(shapes), c \in Corner :
    Call(beginResize(Store, id, c))

CallResizeBy ==
  \E d \in Delta :
    Call(resizeBy(Store, d[1], d[2]))

CallEndResize == Call(endResize(Store))

StoreNext ==
  \/ CallSelect
  \/ CallBeginDrag
  \/ CallDragBy
  \/ CallEndDrag
  \/ CallAddRect
  \/ CallAddEllipse
  \/ CallAddText
  \/ CallSetShapeText
  \/ CallBeginResize
  \/ CallResizeBy
  \/ CallEndResize

\* the Shape Store driven by any sequence of calls of its operations
StoreSpec == StoreInit /\ [][StoreNext]_vars

\* ------------------------------------------------ gesture recognizers (RNGH)
\* A recognizer is UNDETERMINED until a touch lands on it, then BEGAN, then
\* possibly ACTIVE; it leaves BEGAN by FAILED or CANCELLED and ACTIVE by END or
\* CANCELLED, and is UNDETERMINED again afterwards.  Every one of these state
\* changes is delivered to onHandlerStateChange while the component is mounted;
\* onGestureEvent is delivered in state ACTIVE.
InProgress(s) == s \in {"BEGAN", "ACTIVE"}

Terminal == {"END", "CANCELLED", "FAILED"}

TerminalFrom(s) ==
  IF s = "BEGAN" THEN {"FAILED", "CANCELLED"}
  ELSE IF s = "ACTIVE" THEN {"END", "CANCELLED"}
  ELSE {}

\* e.nativeEvent.state of a gesture event
GestureEventStates == {"ACTIVE"}

\* translationX / translationY reported to a shape pan: inside the tap slop
\* and past it
PanTranslation == { <<5, -3>>, <<30, -10>> }

\* absoluteX / absoluteY of the touch on a handle: where it lands, where it moves
TouchDownAbs == { <<100, 100>> }

TouchMoveAbs == { <<130, 90>>, <<-100, -100>> }

TAP_SLOP == 8

Abs(v) == IF v >= 0 THEN v ELSE 0 - v

\* screen -> world: v / camScale
ToWorld(v, camScale) == IF IsFinite(v) THEN (v * ScaleUnit) \div camScale ELSE NotANumber

\* ----------------------------------------------------- canvas and components
\* Everything a callback can read or write, as one value.  fresh records that a
\* state setter was given a new object, which re-renders whatever its content.
\* resizeCalls lists the arguments of the resizeBy calls the callbacks made.
World ==
  [st |-> Store, editingId |-> editingId, selectedIds |-> selectedIds,
   last |-> last, didDrag |-> didDrag, lastAbs |-> lastAbs,
   panState |-> panState, handleState |-> handleState, fresh |-> FALSE,
   selectMode |-> selectMode, marquee |-> marquee, marqueeState |-> marqueeState,
   armed |-> armed, touch |-> touch, pending |-> pending,
   resizeCalls |-> <<>>]

\* keys of the ResizeHandle recognizers mounted for a selection: the four
\* corners of each shape with s.id === selectedId that is not being edited
handlePanRefs(sel, ed, ss) ==
  { <<ss[i].id, c>> : i \in { j \in DOMAIN ss : ss[j].id = sel /\ ed # ss[j].id },
                      c \in Corner }

\* prop select of the overlays
selectProp(w, id) ==
  [w EXCEPT !.selectedIds = {}, !.fresh = TRUE, !.st = select(@, id)]

\* prop dragByWorld of the overlays: the store's dragBy
dragByWorld(w, dx, dy) ==
  [w EXCEPT !.st = dragBy(@, dx, dy), !.fresh = @ \/ Truthy(w.st.draggingId)]

beginEditing(w, id) == [w EXCEPT !.editingId = id]

\* onEdit that opens the editor without selecting the shape
onEdit_NoSelect(w, id) == beginEditing(w, id)

\* commitEditing of components/CanvasModule/InfiniteCanvas.tsx, the TextInput's
\* onBlur and onSubmitEditing: editingValue is what was typed
commitEditing(w, editingValue) ==
  [w EXCEPT !.st = IF w.editingId # NULL THEN setShapeText(@, w.editingId, editingValue)
                   ELSE @,
            !.editingId = NULL]

\* prop onEdit of the overlay of shape id
onEdit(w, id) == beginEditing(selectProp(w, id), id)

\* onPanState that closes the session on END only
ShapeOverlay_onPanState_EndOnly(w, id, state) ==
  LET w1 == IF state = "BEGAN"
            THEN [selectProp([w EXCEPT !.didDrag[id] = FALSE, !.last[id] = <<0, 0>>], id)
                    EXCEPT !.st = beginDrag(@, id)]
            ELSE w
  IN IF state = "END" THEN [w1 EXCEPT !.st = endDrag(@)] ELSE w1

\* ShapeOverlay of part_000
ShapeOverlay_onPanState(w, id, state) ==
  LET w1 == IF state = "BEGAN"
            THEN [selectProp([w EXCEPT !.didDrag[id] = FALSE, !.last[id] = <<0, 0>>], id)
                    EXCEPT !.st = beginDrag(@, id)]
            ELSE w
  IN IF state \in Terminal THEN [w1 EXCEPT !.st = endDrag(@)] ELSE w1

\* onPan without the slop
ShapeOverlay_onPan_NoSlop(w, id, translationX, translationY, camScale) ==
  IF ~IsFinite(translationX) \/ ~IsFinite(translationY) THEN w
  ELSE
    LET dxInc == translationX - w.last[id][1]
        dyInc == translationY - w.last[id][2]
        w1 == [w EXCEPT !.last[id] = <<translationX, translationY>>]
    IN dragByWorld([w1 EXCEPT !.didDrag[id] = TRUE],
                   ToWorld(dxInc, camScale), ToWorld(dyInc, camScale))

\* onPan that leaves last where it was when it suppresses an event
ShapeOverlay_onPan_Replays(w, id, translationX, translationY, camScale) ==
  IF ~IsFinite(translationX) \/ ~IsFinite(translationY) THEN w
  ELSE
    LET dxInc == translationX - w.last[id][1]
        dyInc == translationY - w.last[id][2]
        w1 == [w EXCEPT !.last[id] = <<translationX, translationY>>]
    IN IF ~w.didDrag[id] /\ ~(Abs(translationX) > TAP_SLOP \/ Abs(translationY) > TAP_SLOP)
       THEN w
       ELSE dragByWorld([w1 EXCEPT !.didDrag[id] = TRUE],
                        ToWorld(dxInc, camScale), ToWorld(dyInc, camScale))

ShapeOverlay_onPan(w, id, translationX, translationY, camScale) ==
  IF ~IsFinite(translationX) \/ ~IsFinite(translationY) THEN w
  ELSE
    LET dxInc == translationX - w.last[id][1]
        dyInc == translationY - w.last[id][2]
        w1 == [w EXCEPT !.last[id] = <<translationX, translationY>>]
    IN IF ~w.didDrag[id] /\ ~(Abs(translationX) > TAP_SLOP \/ Abs(translationY) > TAP_SLOP)
       THEN w1
       ELSE dragByWorld([w1 EXCEPT !.didDrag[id] = TRUE],
                        ToWorld(dxInc, camScale), ToWorld(dyInc, camScale))

onSingleTapActivated(w, id) == selectProp(w, id)

\* ShapeOverlay of components/CanvasModule/ShapeOverlay.tsx
\* (Math.hypot(dx, dy) < TAP_SLOP as dx^2 + dy^2 < TAP_SLOP^2)
onStateChange(w, id, state) ==
  LET w1 == IF state = "BEGAN"
            THEN [w EXCEPT !.didDrag[id] = FALSE, !.last[id] = <<0, 0>>,
                           !.st = beginDrag(@, id)]
            ELSE w
      dx == w1.last[id][1]
      dy == w1.last[id][2]
      w2 == IF ~w1.didDrag[id] /\ dx * dx + dy * dy < TAP_SLOP * TAP_SLOP
            THEN selectProp(w1, id) ELSE w1
  IN IF state \in Terminal THEN [w2 EXCEPT !.st = endDrag(@)] ELSE w1

onGesture(w, id, translationX, translationY, camScale) ==
  IF ~IsFinite(translationX) \/ ~IsFinite(translationY) THEN w
  ELSE
    LET w1 == [w EXCEPT !.last[id] = <<translationX, translationY>>]
    IN IF ~w.didDrag[id] /\ ~(Abs(translationX) > TAP_SLOP \/ Abs(translationY) > TAP_SLOP)
       THEN w1
       ELSE dragByWorld([w1 EXCEPT !.didDrag[id] = TRUE],
                        ToWorld(translationX, camScale), ToWorld(translationY, camScale))

\* prop resizeBy of the handles: the store's resizeBy
resizeByWorld(w, dx, dy) ==
  [w EXCEPT !.st = resizeBy(@, dx, dy),
            !.resizeCalls = Append(@, <<dx, dy>>),
            !.fresh = @ \/ (Truthy(w.st.resizingRef.id) /\ Truthy(w.st.resizingRef.corner))]

ResizeHandle_onState(w, shapeId, corner, state, absoluteX, absoluteY) ==
  LET w1 == IF state = "BEGAN"
            THEN [w EXCEPT !.lastAbs[corner] = <<absoluteX, absoluteY>>,
                           !.st = beginResize(@, shapeId, corner)]
            ELSE w
  IN IF state \in Terminal
     THEN [w1 EXCEPT !.lastAbs[corner] = NoAbs, !.st = endResize(@)]
     ELSE w1

\* onPan that measures every event from the press position
ResizeHandle_onPan_FromPress(w, corner, absoluteX, absoluteY, state, camScale) ==
  IF ~IsFinite(absoluteX) \/ ~IsFinite(absoluteY) THEN w
  ELSE IF w.lastAbs[corner] = NoAbs
  THEN [w EXCEPT !.lastAbs[corner] = <<absoluteX, absoluteY>>]
  ELSE
    LET dxIncScreen == absoluteX - w.lastAbs[corner][1]
        dyIncScreen == absoluteY - w.lastAbs[corner][2]
        w2 == IF dxIncScreen # 0 \/ dyIncScreen # 0
              THEN resizeByWorld(w, ToWorld(dxIncScreen, camScale),
                                    ToWorld(dyIncScreen, camScale))
              ELSE w
    IN IF state \in Terminal
       THEN [w2 EXCEPT !.lastAbs[corner] = NoAbs, !.st = endResize(@)]
       ELSE w2

ResizeHandle_onPan(w, corner, absoluteX, absoluteY, state, camScale) ==
  IF ~IsFinite(absoluteX) \/ ~IsFinite(absoluteY) THEN w
  ELSE IF w.lastAbs[corner] = NoAbs
  THEN [w EXCEPT !.lastAbs[corner] = <<absoluteX, absoluteY>>]
  ELSE
    LET dxIncScreen == Minus(absoluteX, w.lastAbs[corner][1])
        dyIncScreen == Minus(absoluteY, w.lastAbs[corner][2])
        w1 == [w EXCEPT !.lastAbs[corner] = <<absoluteX, absoluteY>>]
        w2 == IF dxIncScreen # 0 \/ dyIncScreen # 0
              THEN resizeByWorld(w1, ToWorld(dxIncScreen, camScale),
                                     ToWorld(dyIncScreen, camScale))
              ELSE w1
    IN IF state \in Terminal
       THEN [w2 EXCEPT !.lastAbs[corner] = NoAbs, !.st = endResize(@)]
       ELSE w2

\* onBackgroundTap that leaves the editing shape
onBackgroundTap_KeepsEditing(w, state) ==
  IF state = "END"
  THEN [w EXCEPT !.st = select(endResize(@), NULL),
                 !.selectedIds = {},
                 !.fresh = @ \/ w.selectedIds # {}]
  ELSE w

\* onBackgroundTap without the test of the state
onBackgroundTap_AnyState(w, state) ==
  [w EXCEPT !.st = select(endResize(@), NULL),
            !.editingId = NULL,
            !.selectedIds = {},
            !.fresh = @ \/ w.selectedIds # {}]

onBackgroundTap(w, state) ==
  IF state = "END"
  THEN [w EXCEPT !.st = select(endResize(@), NULL),
                 !.editingId = NULL,
                 !.selectedIds = {},
                 !.fresh = @ \/ w.selectedIds # {}]
  ELSE w

\* the id returned by add*: that of the shape just appended
AddedId(st) == st.shapes[Len(st.shapes)].id

handleAddRect(w, rnd) ==
  LET st1 == addRect(w.st, [x |-> 0, y |-> 0, w |-> 160, h |-> 100,
                            fill |-> "#F5F9FF", stroke |-> "#2563EB"], rnd)
  IN [w EXCEPT !.st = select(st1, AddedId(st1)), !.selectedIds = {}, !.fresh = TRUE]

handleAddEllipse(w, rnd) ==
  LET st1 == addEllipse(w.st, [x |-> 0, y |-> 0, w |-> 140, h |-> 90,
                               fill |-> "#FFF7ED", stroke |-> "#F59E0B"], rnd)
  IN [w EXCEPT !.st = select(st1, AddedId(st1)), !.selectedIds = {}, !.fresh = TRUE]

handleAddText(w, rnd) ==
  LET st1 == addText(w.st, [x |-> 0, y |-> 0, text |-> "New text", w |-> 200,
                            h |-> 40, fontSize |-> 18, color |-> "#111827"], rnd)
  IN [w EXCEPT !.st = select(st1, AddedId(st1)), !.selectedIds = {}, !.fresh = TRUE]

Min(a, b) == IF a <= b THEN a ELSE b

\* ids of the shapes whose screen frame meets the marquee m
InsideMarquee_Intersecting(m, ss, c) ==
  LET xMin == Min(m.x0, m.x1)
      yMin == Min(m.y0, m.y1)
      xMax == Max(m.x0, m.x1)
      yMax == Max(m.y0, m.y1)
      meets(sh) ==
        LET sx == sh.x * c.scale + c.tx * ScaleUnit
            sy == sh.y * c.scale + c.ty * ScaleUnit
            sRight == sx + sh.w * c.scale
            sBottom == sy + sh.h * c.scale
        IN /\ sx <= xMax * ScaleUnit /\ sRight >= xMin * ScaleUnit
           /\ sy <= yMax * ScaleUnit /\ sBottom >= yMin * ScaleUnit
  IN { ss[i].id : i \in { j \in DOMAIN ss : meets(ss[j]) } }

\* containment in the marquee taken from its press point to its release point
InsideMarquee_PressToRelease(m, ss, c) ==
  LET fullyInside(sh) ==
        LET sx == sh.x * c.scale + c.tx * ScaleUnit
            sy == sh.y * c.scale + c.ty * ScaleUnit
            sRight == sx + sh.w * c.scale
            sBottom == sy + sh.h * c.scale
        IN /\ sx >= m.x0 * ScaleUnit /\ sRight <= m.x1 * ScaleUnit
           /\ sy >= m.y0 * ScaleUnit /\ sBottom <= m.y1 * ScaleUnit
  IN { ss[i].id : i \in { j \in DOMAIN ss : fullyInside(ss[j]) } }

\* ids of the shapes whose screen frame lies fully inside the marquee m
InsideMarquee(m, ss, c) ==
  LET xMin == MathMin(m.x0, m.x1)
      yMin == MathMin(m.y0, m.y1)
      xMax == MathMax(m.x0, m.x1)
      yMax == MathMax(m.y0, m.y1)
      fullyInside(sh) ==
        \* sx, sy, sRight, sBottom, each times ScaleUnit
        LET sx == Plus(Times(sh.x, c.scale), c.tx * ScaleUnit)
            sy == Plus(Times(sh.y, c.scale), c.ty * ScaleUnit)
            sRight == Plus(sx, Times(sh.w, c.scale))
            sBottom == Plus(sy, Times(sh.h, c.scale))
        IN /\ AtLeast(sx, Times(xMin, ScaleUnit)) /\ AtMost(sRight, Times(xMax, ScaleUnit))
           /\ AtLeast(sy, Times(yMin, ScaleUnit)) /\ AtMost(sBottom, Times(yMax, ScaleUnit))
  IN { ss[i].id : i \in { j \in DOMAIN ss : fullyInside(ss[j]) } }

\* onBgMarqueePanState whose press opens the marquee and clears nothing
onBgMarqueePanState_KeepsSelection(w, state, absoluteX, absoluteY, c) ==
  IF ~w.selectMode THEN w
  ELSE IF state = "BEGAN"
  THEN [w EXCEPT !.marquee = [active |-> TRUE, x0 |-> absoluteX, y0 |-> absoluteY,
                              x1 |-> absoluteX, y1 |-> absoluteY],
                 !.fresh = TRUE]
  ELSE IF state \in Terminal
  THEN IF ~w.marquee.active THEN w
       ELSE [w EXCEPT !.selectedIds = InsideMarquee(w.marquee, w.st.shapes, c),
                      !.marquee = NoMarquee,
                      !.fresh = TRUE]
  ELSE w

onBgMarqueePanState(w, state, absoluteX, absoluteY, c) ==
  IF ~w.selectMode THEN w
  ELSE IF state = "BEGAN"
  THEN [w EXCEPT !.editingId = NULL,
                 !.st = select(endResize(@), NULL),
                 !.selectedIds = {},
                 !.marquee = [active |-> TRUE, x0 |-> absoluteX, y0 |-> absoluteY,
                              x1 |-> absoluteX, y1 |-> absoluteY],
                 !.fresh = TRUE]
  ELSE IF state \in Terminal
  THEN IF ~w.marquee.active THEN w
       ELSE [w EXCEPT !.selectedIds = InsideMarquee(w.marquee, w.st.shapes, c),
                      !.marquee = NoMarquee,
                      !.fresh = TRUE]
  ELSE w

onBgMarqueePanEvent(w, absoluteX, absoluteY) ==
  IF ~w.selectMode THEN w
  ELSE IF ~IsFinite(absoluteX) \/ ~IsFinite(absoluteY) THEN w
  ELSE IF w.marquee.active
  THEN [w EXCEPT !.marquee.x1 = absoluteX, !.marquee.y1 = absoluteY]
  ELSE w

\* onPress of the mode toggle: setSelectMode((m) => !m)
toggleSelectMode(w) == [w EXCEPT !.selectMode = ~@]

\* f extended to the overlays of ids, new ones starting from dflt
Mounted(f, ids, dflt) == [id \in ids |-> IF id \in DOMAIN f THEN f[id] ELSE dflt]

\* a [selectedId] effect that ends the session only when the selection is
\* cleared
SelectionEffect_OnDeselectOnly(prevSelectedId, st) ==
  IF st.selectedId # prevSelectedId /\ st.selectedId = NULL THEN endResize(st) ELSE st

\* no [selectedId] effect
SelectionEffect_None(prevSelectedId, st) == st

\* useEffect(() => { endResize(); }, [selectedId]): after a render in which
\* selectedId differs from that of the previous render
SelectionEffect(prevSelectedId, st) ==
  IF st.selectedId # prevSelectedId THEN endResize(st) ELSE st

\* A callback has run and left w.  React renders if some state changed; the
\* render computes the wait lists from the ref registries as the previous commit
\* left them; then handles mount and unmount and register themselves, and the
\* [selectedId] effect calls endResize() if the selection changed, which renders
\* once more if isResizing was true.
\* w is the one world the callback left
Apply(world) ==
  \E w \in {world} :
    LET selChanged == w.st.selectedId # selectedId
        lenChanged == Len(w.st.shapes) # Len(shapes)
        rendered == \/ w.fresh
                    \/ w.st.shapes # shapes
                    \/ selChanged
                    \/ w.st.draggingId # draggingId
                    \/ w.st.isResizing # isResizing
                    \/ w.editingId # editingId
                    \/ w.selectMode # selectMode
                    \/ w.marquee # marquee
        again == selChanged /\ w.st.isResizing
        st2 == SelectionEffect(selectedId, w.st)
        regOld == handlePanRefs(selectedId, editingId, shapes)
        regNew == handlePanRefs(st2.selectedId, w.editingId, st2.shapes)
        ids == ShapeIds(st2.shapes)
    IN /\ Commit(st2)
       /\ editingId' = w.editingId
       /\ selectedIds' = w.selectedIds
       /\ panState' = Mounted(w.panState, ids, "UNDETERMINED")
       /\ last' = Mounted(w.last, ids, <<0, 0>>)
       /\ didDrag' = Mounted(w.didDrag, ids, FALSE)
       /\ handleState' = IF regNew # regOld THEN [c \in Corner |-> "UNDETERMINED"]
                         ELSE w.handleState
       /\ lastAbs' = IF regNew # regOld THEN [c \in Corner |-> NoAbs] ELSE w.lastAbs
       /\ overlayHandleWaitFor' = IF ~rendered THEN overlayHandleWaitFor
                                  ELSE IF again THEN regNew ELSE regOld
       /\ handleWaitFor' = IF rendered /\ (selChanged \/ lenChanged) THEN regOld
                           ELSE handleWaitFor
       /\ allInteractiveRefs' =
            IF rendered /\ (selChanged \/ lenChanged)
            THEN [shapes |-> ShapeIds(shapes), handles |-> regOld]
            ELSE allInteractiveRefs
       /\ selectMode' = w.selectMode
       /\ marquee' = w.marquee
       /\ marqueeState' = w.marqueeState
       /\ armed' = w.armed
       /\ touch' = w.touch
       /\ pending' = w.pending

\* a touch lands (on a shape, a handle, the background, a toolbar button),
\* leaving w
Touch(w) ==
  /\ mounted
  /\ pending = <<>>
  /\ steps < MaxTouches
  /\ steps' = steps + 1
  /\ Apply(w)
  /\ UNCHANGED <<moves, cam, camGesture, overlayImpl, mounted>>

\* a movement event of a gesture in progress, its callback leaving w
Move(w) ==
  /\ mounted
  /\ pending = <<>>
  /\ moves < MaxMoves
  /\ moves' = moves + 1
  /\ Apply(w)
  /\ UNCHANGED <<steps, cam, camGesture, overlayImpl, mounted>>

\* a state change of a gesture in progress, its callback leaving w
Change(w) ==
  /\ mounted
  /\ pending = <<>>
  /\ Apply(w)
  /\ UNCHANGED <<steps, moves, cam, camGesture, overlayImpl, mounted>>

\* the next BEGAN callback of the touch that landed runs and leaves w
Deliver(w) ==
  /\ mounted
  /\ pending # <<>>
  /\ Apply([w EXCEPT !.pending = Tail(pending)])
  /\ UNCHANGED <<steps, moves, cam, camGesture, overlayImpl, mounted>>

\* no mounted handle recognizer of the wait list is in progress
HandlesQuiet(waitList) ==
  \A k \in waitList \cap handlePanRefs(selectedId, editingId, shapes) :
    ~InProgress(handleState[k[2]])

\* an overlay that keeps accepting touches while its shape is edited
OverlayEnabled_WhileEditing(id) ==
  overlayImpl = "part_000" => ~isResizing

\* props enabled and pointerEvents of the overlay of shape id
OverlayEnabled(id) ==
  overlayImpl = "part_000" => ~isResizing /\ editingId # id

\* prop enabled of the marquee pan
MarqueeEnabled == selectMode /\ ~isResizing

PanStateCallback(w, id, state) ==
  IF overlayImpl = "part_000" THEN ShapeOverlay_onPanState(w, id, state)
  ELSE onStateChange(w, id, state)

PanEventCallback(w, id, tx, ty) ==
  IF overlayImpl = "part_000" THEN ShapeOverlay_onPan(w, id, tx, ty, cam.scale)
  ELSE onGesture(w, id, tx, ty, cam.scale)

HandlesMounted == handlePanRefs(selectedId, editingId, shapes) # {}

\* the orders in which the callbacks of S can be delivered
Orders(S) ==
  { q \in [1..Cardinality(S) -> S] : \A i, j \in DOMAIN q : i # j => q[i] # q[j] }

\* where a touch landed: <<kind, shape id, corner>>
OnBody(t, id) == t[1] \in {"body", "handle+body"} /\ t[2] = id

OnHandle(t, c) == t[1] \in {"handle", "handle+body"} /\ t[3] = c

\* the tap and long-press recognizers of the overlay of shape id
OverlayTaps(id) ==
  IF overlayImpl = "part_000" THEN {<<"tap", id>>, <<"longpress", id>>} ELSE {}

BgTap == <<"bgtap", "">>

\* the tap and long-press recognizers whose finger is still down: those of
\* the overlays whose pan is in progress
FingerDown ==
  { r \in armed : r[2] \in DOMAIN panState /\ InProgress(panState[r[2]]) }

\* the touch that lands on target, the marquee pan tracking it or not
NewTouch(target, q) ==
  [target |-> target,
   marquee |-> \E i \in DOMAIN q : q[i] = <<"marquee", "">>,
   activated |-> {}, mutated |-> {}]

\* A touch lands on target.  The pan recognizers in leaf and, when enabled, the
\* marquee pan go to BEGAN, and their callbacks will run one after the other in
\* some order, then that of the background tap; the tap and long-press
\* recognizers in taps and the background tap start tracking the touch; those of
\* touches that are over have failed.
TouchDown(target, leaf, taps) ==
  \E q \in Orders(leaf \cup (IF MarqueeEnabled /\ marqueeState = "UNDETERMINED"
                             THEN {<<"marquee", "">>} ELSE {})) :
    Touch([World EXCEPT !.pending = q \o <<BgTap>>,
                        !.armed = FingerDown \cup taps \cup {BgTap},
                        !.touch = NewTouch(target, q)])

\* on the body of shape id
TouchBody(id) ==
  /\ OverlayEnabled(id)
  /\ panState[id] = "UNDETERMINED"
  /\ TouchDown(<<"body", id, "">>, {<<"pan", id>>}, OverlayTaps(id))

\* on the hit box of handle c, outside the body of the shape
TouchHandle(c) ==
  /\ HandlesMounted
  /\ handleState[c] = "UNDETERMINED"
  /\ TouchDown(<<"handle", selectedId, c>>, {<<"handle", c>>}, {})

\* on the part of the hit box of handle c that lies over the body of the
\* shape: the overlay, rendered after the handles, is on top; the handle under
\* it may or may not see the touch
TouchHandleOverBody(c) ==
  /\ HandlesMounted
  /\ handleState[c] = "UNDETERMINED"
  /\ OverlayEnabled(selectedId)
  /\ panState[selectedId] = "UNDETERMINED"
  /\ \E leaf \in { {<<"pan", selectedId>>}, {<<"pan", selectedId>>, <<"handle", c>>} } :
       TouchDown(<<"handle+body", selectedId, c>>, leaf, OverlayTaps(selectedId))

\* on the empty canvas
TouchBackground == TouchDown(<<"background", "", "">>, {}, {})

\* the state a callback can change: store, editing, selection set, marquee, mode
Differs(w0, w1) ==
  \/ w0.st # w1.st
  \/ w0.editingId # w1.editingId
  \/ w0.selectedIds # w1.selectedIds
  \/ w0.marquee # w1.marquee
  \/ w0.selectMode # w1.selectMode

\* a callback of gesture family took w0 to w1; mine: its recognizer tracks the
\* touch that landed last
Ran(family, mine, w0, w1) ==
  [w1 EXCEPT !.touch.mutated = IF mine /\ Differs(w0, w1) THEN @ \cup {family} ELSE @]

\* Recognizer name went to ACTIVE; mine: it tracks the touch that landed last.
\* The recognizers in cancelled, which wait for it, stop tracking.  So does the
\* background tap if the recognizer tracks its touch: shape and handle
\* recognizers are not among its simultaneousHandlers, and only one of the
\* recognizers of a touch is active unless they are declared simultaneous.  The
\* background tap reports its CANCELLED.
Activated(w, name, mine, cancelled) ==
  LET w1 == [w EXCEPT !.touch.activated = IF mine THEN @ \cup {name} ELSE @,
                      !.armed = @ \ (cancelled \cup (IF mine THEN {BgTap} ELSE {}))]
  IN IF BgTap \in w.armed /\ BgTap \notin w1.armed
     THEN Ran("background tap", TRUE, w1, onBackgroundTap(w1, "CANCELLED"))
     ELSE w1

\* the recognizers waiting for those of the overlay of shape id
WaitingForShape(id) ==
  IF id \in allInteractiveRefs.shapes THEN {BgTap} ELSE {}

ShapePanBegan(id) ==
  /\ pending # <<>>
  /\ Head(pending) = <<"pan", id>>
  /\ LET w0 == [World EXCEPT !.panState[id] = "BEGAN"]
     IN Deliver(Ran("drag", OnBody(touch.target, id), w0, PanStateCallback(w0, id, "BEGAN")))

ShapePanActive(id) ==
  /\ panState[id] = "BEGAN"
  /\ OverlayEnabled(id)
  /\ overlayImpl = "part_000" => HandlesQuiet(overlayHandleWaitFor)
  /\ LET w0 == Activated([World EXCEPT !.panState[id] = "ACTIVE"], "shapePan",
                          OnBody(touch.target, id),
                          {<<"tap", id>>} \cup WaitingForShape(id))
     IN Change(Ran("drag", OnBody(touch.target, id), w0, PanStateCallback(w0, id, "ACTIVE")))

ShapePanMove(id) ==
  /\ panState[id] = "ACTIVE"
  /\ OverlayEnabled(id)
  /\ \E t \in PanTranslation :
       Move(Ran("drag", OnBody(touch.target, id), World,
                PanEventCallback(World, id, t[1], t[2])))

ShapePanFinish(id, state) ==
  /\ state \in TerminalFrom(panState[id])
  /\ LET w0 == [World EXCEPT !.panState[id] = "UNDETERMINED",
                             !.armed = @ \ {<<"longpress", id>>}]
     IN Change(Ran("drag", OnBody(touch.target, id), w0, PanStateCallback(w0, id, state)))

\* the single tap of the overlay of shape id fires: its pan has failed, the
\* finger is up
ShapeTap(id) ==
  /\ <<"tap", id>> \in armed
  /\ OverlayEnabled(id)
  /\ ~InProgress(panState[id])
  /\ HandlesQuiet(overlayHandleWaitFor)
  /\ LET w0 == Activated(World, "shapeTap", OnBody(touch.target, id),
                          {<<"tap", id>>, <<"longpress", id>>} \cup WaitingForShape(id))
     IN Change(Ran("tap", OnBody(touch.target, id), w0, onSingleTapActivated(w0, id)))

\* the long press of the overlay of shape id fires: the finger is still down
ShapeLongPress(id) ==
  /\ <<"longpress", id>> \in armed
  /\ OverlayEnabled(id)
  /\ InProgress(panState[id])
  /\ LET w0 == Activated(World, "longPress", OnBody(touch.target, id),
                          {<<"tap", id>>, <<"longpress", id>>})
     IN Change(Ran("edit", OnBody(touch.target, id), w0, onEdit(w0, id)))

\* the BEGAN callback of handle c, if the handle is still mounted
HandleBegan(c) ==
  /\ pending # <<>>
  /\ Head(pending) = <<"handle", c>>
  /\ IF HandlesMounted
     THEN \E a \in TouchDownAbs :
            LET w0 == [World EXCEPT !.handleState[c] = "BEGAN"]
            IN Deliver(Ran("resize", OnHandle(touch.target, c), w0,
                           ResizeHandle_onState(w0, selectedId, c, "BEGAN", a[1], a[2])))
     ELSE Deliver(World)

\* the recognizers waiting for the handles
WaitingForHandle(c) ==
  (IF <<selectedId, c>> \in overlayHandleWaitFor
   THEN { <<"tap", id>> : id \in ShapeIds(shapes) } ELSE {})
  \cup (IF <<selectedId, c>> \in allInteractiveRefs.handles THEN {BgTap} ELSE {})

HandleActive(c) ==
  /\ HandlesMounted
  /\ handleState[c] = "BEGAN"
  /\ pinchState # "BEGAN"
  /\ \E a \in TouchDownAbs :
       LET w0 == Activated([World EXCEPT !.handleState[c] = "ACTIVE"], "handlePan",
                           OnHandle(touch.target, c), WaitingForHandle(c))
       IN Change(Ran("resize", OnHandle(touch.target, c), w0,
                     ResizeHandle_onState(w0, selectedId, c, "ACTIVE", a[1], a[2])))

HandleMove(c) ==
  /\ HandlesMounted
  /\ handleState[c] = "ACTIVE"
  /\ \E a \in TouchMoveAbs, state \in GestureEventStates :
       Move(Ran("resize", OnHandle(touch.target, c), World,
                ResizeHandle_onPan(World, c, a[1], a[2], state, cam.scale)))

HandleFinish(c, state) ==
  /\ HandlesMounted
  /\ state \in TerminalFrom(handleState[c])
  /\ \E a \in TouchMoveAbs :
       LET w0 == [World EXCEPT !.handleState[c] = "UNDETERMINED"]
       IN Change(Ran("resize", OnHandle(touch.target, c), w0,
                     ResizeHandle_onState(w0, selectedId, c, state, a[1], a[2])))

MarqueeBegan ==
  /\ pending # <<>>
  /\ Head(pending) = <<"marquee", "">>
  /\ \E a \in TouchDownAbs :
       LET w0 == [World EXCEPT !.marqueeState = "BEGAN"]
       IN Deliver(Ran("marquee", touch.marquee, w0,
                      onBgMarqueePanState(w0, "BEGAN", a[1], a[2], cam)))

MarqueeActive ==
  /\ marqueeState = "BEGAN"
  /\ MarqueeEnabled
  /\ \E a \in TouchDownAbs :
       LET w0 == [World EXCEPT !.marqueeState = "ACTIVE"]
       IN Change(Ran("marquee", touch.marquee, w0,
                     onBgMarqueePanState(w0, "ACTIVE", a[1], a[2], cam)))

MarqueeMove ==
  /\ marqueeState = "ACTIVE"
  /\ MarqueeEnabled
  /\ \E a \in TouchMoveAbs :
       Move(Ran("marquee", touch.marquee, World,
                onBgMarqueePanEvent(World, a[1], a[2])))

MarqueeFinish(state) ==
  /\ state \in TerminalFrom(marqueeState)
  /\ \E a \in TouchMoveAbs :
       LET w0 == [World EXCEPT !.marqueeState = "UNDETERMINED"]
       IN Change(Ran("marquee", touch.marquee, w0,
                     onBgMarqueePanState(w0, state, a[1], a[2], cam)))

\* the BEGAN callback of the background tap
BackgroundTapBegan ==
  /\ pending # <<>>
  /\ Head(pending) = BgTap
  /\ Deliver(Ran("background tap", TRUE, World, onBackgroundTap(World, "BEGAN")))

\* the finger of the touch that landed last is up and the pans under it have
\* reported their end
TouchLeafQuiet ==
  /\ touch.target[1] \in {"body", "handle+body"} => ~InProgress(panState[touch.target[2]])
  /\ touch.target[1] \in {"handle", "handle+body"} => ~InProgress(handleState[touch.target[3]])

\* the background tap fires (END): the finger is up, every recognizer of its
\* wait list has failed; the taps of the overlay under the touch are cancelled
BackgroundTap ==
  /\ BgTap \in armed
  /\ TouchLeafQuiet
  /\ \A id \in allInteractiveRefs.shapes :
       ~InProgress(panState[id]) /\ <<"tap", id>> \notin armed
  /\ HandlesQuiet(allInteractiveRefs.handles)
  /\ LET w0 == [World EXCEPT !.armed = @ \ ({BgTap} \cup OverlayTaps(touch.target[2]))]
     IN Change(Ran("background tap", TRUE, w0, onBackgroundTap(w0, "END")))

\* a toolbar button is pressed
ToolbarPress(w) ==
  Touch([w EXCEPT !.touch = NewTouch(<<"toolbar", "", "">>, <<>>),
                  !.armed = FingerDown])

ToolbarRect == \E rnd \in RandomSuffix : ToolbarPress(handleAddRect(World, rnd))

ToolbarEllipse == \E rnd \in RandomSuffix : ToolbarPress(handleAddEllipse(World, rnd))

ToolbarText == \E rnd \in RandomSuffix : ToolbarPress(handleAddText(World, rnd))

ToolbarSelect == ToolbarPress(toggleSelectMode(World))

\* ------------------------------------------------------------- the camera
\* translationX / translationY reported to the canvas pan
CanvasTranslation == { <<0, 0>>, <<30, -10>> }

\* scale reported to the pinch, as <<numerator, denominator>>; <<0, 0>> is NaN
NaN == <<0, 0>>

PinchFactor == { <<1, 1>>, <<5, 1>>, <<1, 5>>, <<100, 1>>, <<1, 10000>>, NaN }

\* Number.isFinite of a fraction
IsFiniteFraction(f) == f[2] # 0

\* a < b, a and b fractions with positive denominators
Less(a, b) == a[1] * b[2] < b[1] * a[2]

\* Math.min / Math.max of fractions
MinOf(a, b) == IF Less(b, a) THEN b ELSE a

MaxOf(a, b) == IF Less(a, b) THEN b ELSE a

\* the fraction f as a scale, in units of 1 / ScaleUnit
ToScale(f) == (f[1] * ScaleUnit) \div f[2]

\* onCanvasPanState: the ref panStart after the callback
onCanvasPanState(c, start, state) ==
  IF state = "ACTIVE" THEN [tx |-> c.tx, ty |-> c.ty] ELSE start

\* onCanvasPanEvent that adds the translation to the camera as it is
onCanvasPanEvent_Incremental(c, start, translationX, translationY) ==
  IF ~IsFinite(translationX) \/ ~IsFinite(translationY) THEN c
  ELSE [c EXCEPT !.tx = c.tx + translationX, !.ty = c.ty + translationY]

\* onCanvasPanEvent: the camera after the callback
onCanvasPanEvent(c, start, translationX, translationY) ==
  IF ~IsFinite(translationX) \/ ~IsFinite(translationY) THEN c
  ELSE [c EXCEPT !.tx = start.tx + translationX, !.ty = start.ty + translationY]

\* onCanvasPinchState: the ref pinchStart after the callback
onCanvasPinchState(c, start, state) ==
  IF state = "ACTIVE" THEN [scale |-> c.scale] ELSE start

\* onCanvasPinchEvent without the clamp
onCanvasPinchEvent_NoClamp(c, start, scale) ==
  IF ~IsFiniteFraction(scale) THEN c
  ELSE [c EXCEPT !.scale = ToScale(<<start.scale * scale[1], ScaleUnit * scale[2]>>)]

\* onCanvasPinchEvent: the camera after the callback
onCanvasPinchEvent(c, start, scale) ==
  IF ~IsFiniteFraction(scale) THEN c
  ELSE LET next == <<start.scale * scale[1], ScaleUnit * scale[2]>>
           clamped == MaxOf(<<2, 10>>, MinOf(<<5, 1>>, next))
       IN [c EXCEPT !.scale = ToScale(clamped)]

\* canvasPanEnabled that does not look at the mode
canvasPanEnabled_IgnoresMode ==
  IF canvasImpl = "part_000" THEN ~isResizing /\ ~marquee.active
  ELSE ~isResizing

\* prop enabled of the canvas pan
canvasPanEnabled ==
  IF canvasImpl = "part_000" THEN ~isResizing /\ ~selectMode /\ ~marquee.active
  ELSE ~isResizing

\* prop enabled of the pinch
PinchEnabled == canvasImpl = "part_000" => ~isResizing

\* a callback of a canvas recognizer has run; called says whether it called
\* setCam, which renders
CameraStep(c, called, cps, ps, pis, pst) ==
  /\ mounted
  /\ pending = <<>>
  /\ cam' = c
  /\ canvasPanState' = cps
  /\ panStart' = ps
  /\ pinchState' = pis
  /\ pinchStart' = pst
  /\ Apply([World EXCEPT !.fresh = called])
  /\ UNCHANGED <<canvasImpl, overlayImpl, mounted>>

\* a finger lands on the canvas and the canvas pan tracks it
CanvasPanBegan ==
  /\ canvasPanState = "UNDETERMINED"
  /\ canvasPanEnabled
  /\ CameraStep(cam, FALSE, "BEGAN", onCanvasPanState(cam, panStart, "BEGAN"),
                pinchState, pinchStart)
  /\ UNCHANGED <<steps, moves>>

CanvasPanActive ==
  /\ canvasPanState = "BEGAN"
  /\ canvasPanEnabled
  /\ HandlesQuiet(handleWaitFor)
  /\ CameraStep(cam, FALSE, "ACTIVE", onCanvasPanState(cam, panStart, "ACTIVE"),
                pinchState, pinchStart)
  /\ UNCHANGED <<steps, moves>>

CanvasPanMove ==
  /\ canvasPanState = "ACTIVE"
  /\ canvasPanEnabled
  /\ moves < MaxCamMoves
  /\ moves' = moves + 1
  /\ \E t \in CanvasTranslation :
       CameraStep(onCanvasPanEvent(cam, panStart, t[1], t[2]), TRUE,
                  canvasPanState, panStart, pinchState, pinchStart)
  /\ UNCHANGED steps

CanvasPanFinish(state) ==
  /\ state \in TerminalFrom(canvasPanState)
  /\ CameraStep(cam, FALSE, "UNDETERMINED", onCanvasPanState(cam, panStart, state),
                pinchState, pinchStart)
  /\ UNCHANGED <<steps, moves>>

\* two fingers land on the canvas and the pinch tracks them
PinchBegan ==
  /\ pinchState = "UNDETERMINED"
  /\ PinchEnabled
  /\ CameraStep(cam, FALSE, canvasPanState, panStart,
                "BEGAN", onCanvasPinchState(cam, pinchStart, "BEGAN"))
  /\ UNCHANGED <<steps, moves>>

\* The pinch tracks every finger on the canvas, that of a handle pan included:
\* when it goes ACTIVE a handle pan that is BEGAN has been cancelled (its
\* CANCELLED comes first), and when a handle pan goes ACTIVE a pinch that is
\* BEGAN has been cancelled.  A pinch begun by fingers that landed after the
\* handle pan went ACTIVE shares no finger with it.
PinchActive ==
  /\ pinchState = "BEGAN"
  /\ PinchEnabled
  /\ HandlesMounted => \A c \in Corner : handleState[c] # "BEGAN"
  /\ CameraStep(cam, FALSE, canvasPanState, panStart,
                "ACTIVE", onCanvasPinchState(cam, pinchStart, "ACTIVE"))
  /\ UNCHANGED <<steps, moves>>

PinchMove ==
  /\ pinchState = "ACTIVE"
  /\ PinchEnabled
  /\ moves < MaxCamMoves
  /\ moves' = moves + 1
  /\ \E f \in PinchFactor :
       CameraStep(onCanvasPinchEvent(cam, pinchStart, f), IsFiniteFraction(f),
                  canvasPanState, panStart, pinchState, pinchStart)
  /\ UNCHANGED steps

PinchFinish(state) ==
  /\ state \in TerminalFrom(pinchState)
  /\ CameraStep(cam, FALSE, canvasPanState, panStart,
                "UNDETERMINED", onCanvasPinchState(cam, pinchStart, state))
  /\ UNCHANGED <<steps, moves>>

\* the canvas is unmounted: the cleanup of the effects runs, the recognizers
\* and the component state are gone
Unmount ==
  /\ mounted
  /\ pending = <<>>
  /\ mounted' = FALSE
  /\ Commit(endResize(Store))
  /\ editingId' = NULL
  /\ selectedIds' = {}
  /\ panState' = [id \in ShapeIds(shapes) |-> "UNDETERMINED"]
  /\ last' = [id \in ShapeIds(shapes) |-> <<0, 0>>]
  /\ didDrag' = [id \in ShapeIds(shapes) |-> FALSE]
  /\ handleState' = [c \in Corner |-> "UNDETERMINED"]
  /\ lastAbs' = [c \in Corner |-> NoAbs]
  /\ overlayHandleWaitFor' = {}
  /\ handleWaitFor' = {}
  /\ allInteractiveRefs' = [shapes |-> {}, handles |-> {}]
  /\ selectMode' = FALSE
  /\ marquee' = NoMarquee
  /\ marqueeState' = "UNDETERMINED"
  /\ armed' = {}
  /\ touch' = NoTouch
  /\ UNCHANGED <<steps, moves, cam, camGesture, overlayImpl, pending>>

Next ==
  \/ \E id \in ShapeIds(shapes) : TouchBody(id)
  \/ \E c \in Corner : TouchHandle(c)
  \/ \E c \in Corner : TouchHandleOverBody(c)
  \/ TouchBackground
  \/ \E id \in ShapeIds(shapes) : ShapePanBegan(id)
  \/ \E id \in ShapeIds(shapes) : ShapePanActive(id)
  \/ \E id \in ShapeIds(shapes) : ShapePanMove(id)
  \/ \E id \in ShapeIds(shapes), state \in Terminal : ShapePanFinish(id, state)
  \/ \E id \in ShapeIds(shapes) : ShapeTap(id)
  \/ \E id \in ShapeIds(shapes) : ShapeLongPress(id)
  \/ \E c \in Corner : HandleBegan(c)
  \/ \E c \in Corner : HandleActive(c)
  \/ \E c \in Corner : HandleMove(c)
  \/ \E c \in Corner, state \in Terminal : HandleFinish(c, state)
  \/ MarqueeBegan
  \/ MarqueeActive
  \/ MarqueeMove
  \/ \E state \in Terminal : MarqueeFinish(state)
  \/ BackgroundTapBegan
  \/ BackgroundTap
  \/ ToolbarRect
  \/ ToolbarEllipse
  \/ ToolbarText
  \/ ToolbarSelect
  \/ Unmount

\* the canvas driven by any interleaving of gesture and toolbar events
Spec == Init /\ [][Next]_vars

\* either revision of the canvas, with the inline overlay
CameraInit == \E impl \in CanvasImpls : Mounting(impl) /\ overlayImpl = "part_000"

\* the camera gestures, interleaved with what enables and disables them: a
\* shape added and selected from the toolbar, a resize by one of its handles,
\* and in part_000 the select mode and the marquee
CameraNext ==
  \/ CanvasPanBegan
  \/ CanvasPanActive
  \/ CanvasPanMove
  \/ \E state \in Terminal : CanvasPanFinish(state)
  \/ PinchBegan
  \/ PinchActive
  \/ PinchMove
  \/ \E state \in Terminal : PinchFinish(state)
  \/ ToolbarRect
  \/ \E c \in {"se"} : TouchHandle(c)
  \/ \E c \in {"se"} : HandleBegan(c)
  \/ \E c \in {"se"} : HandleActive(c)
  \/ \E c \in {"se"}, state \in Terminal : HandleFinish(c, state)
  \/ BackgroundTapBegan
  \/ canvasImpl = "part_000" /\ ToolbarSelect
  \/ canvasImpl = "part_000" /\ TouchBackground
  \/ canvasImpl = "part_000" /\ MarqueeBegan
  \/ canvasImpl = "part_000" /\ MarqueeActive
  \/ canvasImpl = "part_000" /\ MarqueeMove
  \/ canvasImpl = "part_000" /\ \E state \in Terminal : MarqueeFinish(state)

CameraSpec == CameraInit /\ [][CameraNext]_vars

\* --------------------------------------------------- degenerate gestures
\* absoluteX / absoluteY and translationX / translationY of an event of a
\* degenerate gesture: NaN in one coordinate or in both
NonFiniteAbs == { <<NotANumber, NotANumber>>, <<130, NotANumber>> }

NonFiniteTranslation == { <<NotANumber, 0>> }

\* HandleBegan, HandleMove, MarqueeBegan, MarqueeMove and ShapePanMove for an
\* event that carries a non-finite position or translation
DegenerateHandleBegan(c) ==
  /\ pending # <<>>
  /\ Head(pending) = <<"handle", c>>
  /\ HandlesMounted
  /\ \E a \in NonFiniteAbs :
       LET w0 == [World EXCEPT !.handleState[c] = "BEGAN"]
       IN Deliver(Ran("resize", OnHandle(touch.target, c), w0,
                      ResizeHandle_onState(w0, selectedId, c, "BEGAN", a[1], a[2])))

DegenerateHandleMove(c) ==
  /\ HandlesMounted
  /\ handleState[c] = "ACTIVE"
  /\ \E a \in NonFiniteAbs, state \in GestureEventStates :
       Move(Ran("resize", OnHandle(touch.target, c), World,
                ResizeHandle_onPan(World, c, a[1], a[2], state, cam.scale)))

DegenerateMarqueeBegan ==
  /\ pending # <<>>
  /\ Head(pending) = <<"marquee", "">>
  /\ \E a \in NonFiniteAbs :
       LET w0 == [World EXCEPT !.marqueeState = "BEGAN"]
       IN Deliver(Ran("marquee", touch.marquee, w0,
                      onBgMarqueePanState(w0, "BEGAN", a[1], a[2], cam)))

DegenerateMarqueeMove ==
  /\ marqueeState = "ACTIVE"
  /\ MarqueeEnabled
  /\ \E a \in NonFiniteAbs :
       Move(Ran("marquee", touch.marquee, World,
                onBgMarqueePanEvent(World, a[1], a[2])))

DegenerateShapePanMove(id) ==
  /\ panState[id] = "ACTIVE"
  /\ OverlayEnabled(id)
  /\ \E t \in NonFiniteTranslation :
       Move(Ran("drag", OnBody(touch.target, id), World,
                PanEventCallback(World, id, t[1], t[2])))

DegenerateEvent ==
  \/ \E c \in Corner : DegenerateHandleBegan(c)
  \/ \E c \in Corner : DegenerateHandleMove(c)
  \/ DegenerateMarqueeBegan
  \/ DegenerateMarqueeMove
  \/ \E id \in ShapeIds(shapes) : DegenerateShapePanMove(id)

DegenerateNext == Next \/ DegenerateEvent

\* the canvas of part_000 under touches whose events may carry NaN
DegenerateSpec == Init /\ [][DegenerateNext]_vars

\* ------------------------------------------------- the wait-for relation
\* a recognizer is <<kind, shape id, corner>>, of kind "pinch", "canvasPan",
\* "marquee", "bgtap", "tap", "longpress", "doubletap", "pan" or "handle"

\* the ResizeHandle recognizers registered under the keys of a wait list
HandleRecognizers(keys) == { <<"handle", k[1], k[2]>> : k \in keys }

\* a shape pan that waits for the tap of its overlay
WaitFor_PanWaitsForTap(tree, r) ==
  CASE r[1] = "canvasPan" -> HandleRecognizers(handleWaitFor)
    [] r[1] = "bgtap" ->
         UNION { {<<"tap", id, "">>, <<"pan", id, "">>, <<"doubletap", id, "">>} :
                 id \in allInteractiveRefs.shapes }
         \cup HandleRecognizers(allInteractiveRefs.handles)
    [] r[1] = "tap" -> {<<"pan", r[2], "">>}
    [] r[1] = "pan" -> {<<"tap", r[2], "">>}
    [] OTHER -> {}

\* prop waitFor of recognizer r, in the gesture tree of the canvas and in the
\* overlay tree given; a recognizer without the prop waits for none
WaitFor(tree, r) ==
  CASE r[1] = "canvasPan" -> HandleRecognizers(handleWaitFor)
    [] r[1] = "bgtap" ->
         UNION { {<<"tap", id, "">>, <<"pan", id, "">>, <<"doubletap", id, "">>} :
                 id \in allInteractiveRefs.shapes }
         \cup HandleRecognizers(allInteractiveRefs.handles)
    [] r[1] = "tap" ->
         {<<"pan", r[2], "">>}
         \cup (IF tree = "part_000" THEN {<<"longpress", r[2], "">>}
               ELSE {<<"doubletap", r[2], "">>})
         \cup HandleRecognizers(overlayHandleWaitFor)
    [] r[1] = "doubletap" -> {<<"pan", r[2], "">>}
    [] r[1] = "pan" -> IF tree = "ShapeOverlay.tsx" THEN {}
                       ELSE HandleRecognizers(overlayHandleWaitFor)
    [] OTHER -> {}

\* the recognizers rendered with the overlay tree given
Recognizers(tree) ==
  { <<kind, "", "">> : kind \in {"pinch", "canvasPan", "marquee", "bgtap"} }
  \cup { <<kind, id, "">> :
           kind \in {"pan"} \cup (CASE tree = "part_000" -> {"tap", "longpress"}
                                    [] tree = "InfiniteCanvas.tsx" -> {"tap", "doubletap"}
                                    [] OTHER -> {}),
           id \in ShapeIds(shapes) }
  \cup HandleRecognizers(handlePanRefs(selectedId, editingId, shapes))

\* ------------------------------------------------------- fair scheduling
\* What the gesture library and the user's hand do without being asked: a
\* queued BEGAN callback is delivered, a finger that is down is lifted and the
\* pan tracking it reports a terminal state, and a tap whose finger is up
\* fires once the recognizers it waits for are over.
Progress ==
  \/ \E id \in ShapeIds(shapes) : ShapePanBegan(id)
  \/ \E id \in ShapeIds(shapes), state \in Terminal : ShapePanFinish(id, state)
  \/ \E id \in ShapeIds(shapes) : ShapeTap(id)
  \/ \E c \in Corner : HandleBegan(c)
  \/ \E c \in Corner, state \in Terminal : HandleFinish(c, state)
  \/ MarqueeBegan
  \/ \E state \in Terminal : MarqueeFinish(state)
  \/ BackgroundTapBegan
  \/ BackgroundTap

\* the canvas of Spec under that scheduling
LiveSpec == Init /\ [][Next]_vars /\ WF_vars(Progress)

\* ------------------------------------------------------- claims: Shape Store
\* a session is open when the store's own guard lets dragBy / resizeBy through
DragOpen(st) == Truthy(st.draggingId)

ResizeOpen(st) == Truthy(st.resizingRef.id) /\ Truthy(st.resizingRef.corner)

\* length of the call sequences the claims below look ahead
ProbeLen == 2

\* world position of the corner opposite c
Anchor(s, c) ==
  IF c = "se" THEN <<s.x, s.y>>
  ELSE IF c = "sw" THEN <<s.x + s.w, s.y>>
  ELSE IF c = "ne" THEN <<s.x, s.y + s.h>>
  ELSE <<s.x + s.w, s.y + s.h>>

\* C1: a drag session and a resize session are never open at the same time.
C1_SingleActiveSession ==
  ~(draggingId # NULL /\ (resizingRef.id # NULL \/ isResizing))

\* C2: an open session's shape is never replaced by another shape without the
\* session having been closed in between.
C2_NoSilentReplace ==
  [][ /\ (draggingId # NULL /\ draggingId' # NULL => draggingId' = draggingId)
      /\ (resizingRef.id # NULL /\ resizingRef'.id # NULL
            => resizingRef'.id = resizingRef.id) ]_vars

\* the anchors of the session's shapes (shapes of another id: none)
AnchorsOf(st) ==
  [i \in DOMAIN st.shapes |->
     IF st.shapes[i].id = st.resizingRef.id
     THEN Anchor(st.shapes[i], st.resizingRef.corner) ELSE <<>>]

\* the anchors are a0 after each of the next n resizeBy calls, whatever their deltas
RECURSIVE AnchorKept(_, _, _)
AnchorKept(st, a0, n) ==
  \/ n = 0
  \/ \A d \in Delta :
       LET t == resizeBy(st, d[1], d[2]) IN
       AnchorsOf(t) = a0 /\ AnchorKept(t, a0, n - 1)

\* C3: within a resize session on corner c, the corner opposite c stays where it
\* was after every resizeBy call of any sequence of calls, clamped or not.
C3_ResizeAnchorFixed ==
  ResizeOpen(Store) => AnchorKept(Store, AnchorsOf(Store), ProbeLen)

\* the clamp has engaged on both axes of r1 under corner nw, anchor (40, 20) kept
C3_Witness ==
  /\ resizingRef = [id |-> "r1", corner |-> "nw"]
  /\ shapes[1].w = MIN_W /\ shapes[1].h = MIN_H
  /\ shapes[1].x + shapes[1].w = 40 /\ shapes[1].y + shapes[1].h = 20

AtLeastMin(st) ==
  \A i \in DOMAIN st.shapes :
    st.shapes[i].id = st.resizingRef.id =>
      st.shapes[i].w >= MIN_W /\ st.shapes[i].h >= MIN_H

\* C4: after each resizeBy call in a session, whatever the shape's size before
\* the call and whatever the delta, the resized shape has w >= MIN_W and
\* h >= MIN_H.
C4_MinSizeAfterResize ==
  ResizeOpen(Store) =>
    \A d \in Delta : AtLeastMin(resizeBy(Store, d[1], d[2]))

\* a shape added below the minimum size has been resized up to the floor
C4_Witness ==
  /\ Len(shapes) = 4
  /\ ResizeOpen(Store)
  /\ shapes[4].id = resizingRef.id
  /\ shapes[4].w = MIN_W /\ shapes[4].h = MIN_H

\* C5: every shape of the store has w >= MIN_W and h >= MIN_H in every state.
C5_MinSizeAlways ==
  \A i \in DOMAIN shapes : shapes[i].w >= MIN_W /\ shapes[i].h >= MIN_H

\* the resize table of the design: new geometry of s under corner c
TableW(s, c, dx) ==
  IF c \in {"se", "ne"} THEN Max(MIN_W, s.w + dx) ELSE Max(MIN_W, s.w - dx)

TableH(s, c, dy) ==
  IF c \in {"se", "sw"} THEN Max(MIN_H, s.h + dy) ELSE Max(MIN_H, s.h - dy)

TableX(s, c, dx) ==
  IF c \in {"sw", "nw"} THEN (s.x + s.w) - TableW(s, c, dx) ELSE s.x

TableY(s, c, dy) ==
  IF c \in {"ne", "nw"} THEN (s.y + s.h) - TableH(s, c, dy) ELSE s.y

SameExcept(r, s, fields) ==
  /\ DOMAIN r = DOMAIN s
  /\ \A f \in DOMAIN s \ fields : r[f] = s[f]

MovedBy(t, sx, sy) ==
  /\ [t EXCEPT !.shapes = shapes] = Store
  /\ Len(t.shapes) = Len(shapes)
  /\ \A i \in DOMAIN shapes :
       IF shapes[i].id = draggingId
       THEN /\ t.shapes[i].x = shapes[i].x + sx
            /\ t.shapes[i].y = shapes[i].y + sy
            /\ SameExcept(t.shapes[i], shapes[i], {"x", "y"})
       ELSE t.shapes[i] = shapes[i]

\* st is the store moved by (sx, sy); each of the next n dragBy calls adds its delta
RECURSIVE DragAdds(_, _, _, _)
DragAdds(st, sx, sy, n) ==
  \/ n = 0
  \/ \A d \in Delta :
       LET t == dragBy(st, d[1], d[2]) IN
       MovedBy(t, sx + d[1], sy + d[2]) /\ DragAdds(t, sx + d[1], sy + d[2], n - 1)

C8_NoSessionNoOp ==
  \A d \in Delta :
    /\ ~DragOpen(Store) => dragBy(Store, d[1], d[2]) = Store
    /\ ~ResizeOpen(Store) => resizeBy(Store, d[1], d[2]) = Store
    /\ dragBy(endDrag(Store), d[1], d[2]) = endDrag(Store)
    /\ resizeBy(endResize(Store), d[1], d[2]) = endResize(Store)

\* r1 was dragged by (30, -10) and the session was ended
C8_Witness ==
  /\ draggingId = NULL
  /\ shapes[1] = [InitialShapes[1] EXCEPT !.x = -90, !.y = -90]

\* C9: endDrag and endResize are idempotent, change nothing when nothing is
\* open, and endResize leaves the session closed and isResizing false.
C9_IdempotentEnd ==
  /\ endDrag(endDrag(Store)) = endDrag(Store)
  /\ endResize(endResize(Store)) = endResize(Store)
  /\ draggingId = NULL => endDrag(Store) = Store
  /\ (resizingRef = [id |-> NULL, corner |-> NULL] /\ ~isResizing)
       => endResize(Store) = Store
  /\ endResize(Store).resizingRef = [id |-> NULL, corner |-> NULL]
  /\ endResize(Store).isResizing = FALSE
  /\ endDrag(Store).draggingId = NULL
  /\ [endDrag(Store) EXCEPT !.draggingId = draggingId] = Store
  /\ [endResize(Store) EXCEPT !.resizingRef = resizingRef, !.isResizing = isResizing]
       = Store

\* a resize session on r1 (corner se, grown by 30) has been ended
C9_Witness ==
  /\ resizingRef = [id |-> NULL, corner |-> NULL]
  /\ ~isResizing
  /\ shapes[1] = [InitialShapes[1] EXCEPT !.w = 190, !.h = 90]

\* ------------------------------------------------------------ claims: canvas
NoPanInProgress == \A id \in DOMAIN panState : ~InProgress(panState[id])

NoHandleInProgress == \A c \in Corner : ~InProgress(handleState[c])

DragClosed == draggingId = NULL

ResizeClosed == resizingRef = [id |-> NULL, corner |-> NULL] /\ ~isResizing

\* C10: no session outlives its gesture.  A shape pan that moves to END,
\* CANCELLED or FAILED leaves no drag session open, a handle pan that moves to
\* END, CANCELLED or FAILED leaves no resize session open, and whenever no shape
\* pan (no handle pan) of the mounted canvas is in progress no drag (no resize)
\* session is open.
C10_NoSessionOutlivesGesture ==
  /\ [][ (\E id \in ShapeIds(shapes), state \in Terminal : ShapePanFinish(id, state))
           => DragClosed' ]_vars
  /\ [][ (\E c \in Corner, state \in Terminal : HandleFinish(c, state))
           => ResizeClosed' ]_vars
  /\ [](mounted => (NoPanInProgress => DragClosed) /\ (NoHandleInProgress => ResizeClosed))

\* r1 was selected and resized by its se handle, the handle's gesture is over,
\* no gesture is in progress and no session is open
C10_Witness ==
  /\ mounted
  /\ NoPanInProgress /\ NoHandleInProgress
  /\ DragClosed /\ ResizeClosed
  /\ selectedId = "r1"
  /\ shapes[1].w = 190 /\ shapes[1].h = 90

\* the store state st holds no resize session
ResizeClosedIn(st) == st.resizingRef = [id |-> NULL, corner |-> NULL] /\ ~st.isResizing

\* what the callbacks that can change the selection leave, from the current
\* state: toolbar adds, background tap, shape tap, shape pan press and release,
\* long press, marquee press
SelectionChanges ==
  { handleAddRect(World, rnd) : rnd \in RandomSuffix }
  \cup { handleAddEllipse(World, rnd) : rnd \in RandomSuffix }
  \cup { handleAddText(World, rnd) : rnd \in RandomSuffix }
  \cup { onBackgroundTap(World, "END") }
  \cup { onSingleTapActivated(World, id) : id \in ShapeIds(shapes) }
  \cup { onEdit(World, id) : id \in ShapeIds(shapes) }
  \cup { PanStateCallback(World, id, state) :
           id \in ShapeIds(shapes), state \in {"BEGAN"} \cup Terminal }
  \cup { onBgMarqueePanState([World EXCEPT !.selectMode = TRUE], "BEGAN", a[1], a[2], cam) :
           a \in TouchDownAbs }

\* C11: a step that changes selectedId, and the teardown of the canvas, leave
\* no resize session open; an open session is always one of the selected shape;
\* and from every state, whatever callback changes the selection, after its
\* render and effects the session is closed and a resizeBy changes no shape.
C11_SelectionChangeClosesResize ==
  /\ [][ selectedId' # selectedId => ResizeClosed' ]_vars
  /\ [][ Unmount => ResizeClosed' ]_vars
  /\ [](mounted =>
         /\ ResizeOpen(Store) => resizingRef.id = selectedId
         /\ \A w \in SelectionChanges :
              w.st.selectedId # selectedId =>
                LET st == SelectionEffect(selectedId, w.st)
                IN /\ ResizeClosedIn(st)
                   /\ \A d \in Delta : resizeBy(st, d[1], d[2]).shapes = st.shapes)

\* r1 is selected and the gesture of its se handle holds a resize session open
C11_Witness ==
  /\ mounted
  /\ selectedId = "r1"
  /\ resizingRef = [id |-> "r1", corner |-> "se"]
  /\ isResizing
  /\ handleState["se"] = "ACTIVE"

\* C12: editing excludes manipulation: whenever editingId is non-null, no drag
\* session and no resize session is open.
C12_EditingExcludesManipulation ==
  mounted /\ editingId # NULL => DragClosed /\ ResizeClosed

\* C13: handle priority: while the touch that landed last is one on a point
\* covered by a handle's hit box and by the body overlay of the shape, no drag
\* session of that shape is open.
C13_HandlePriority ==
  mounted /\ touch.target[1] = "handle+body" => draggingId # touch.target[2]

\* C14: the callbacks that changed store, selection, editing or marquee state
\* for the touch that landed last all belong to one gesture family.
C14_OneFamilyPerTouch ==
  mounted => Cardinality(touch.mutated) <= 1

\* the handle recognizers in the waitFor prop of each recognizer that is not a
\* handle: a recognizer without a waitFor prop waits for none
PinchWaitFor == {}

CanvasPanWaitFor == handleWaitFor

MarqueeWaitFor == {}

BackgroundTapWaitFor == allInteractiveRefs.handles

ShapeLongPressWaitFor == {}

ShapeTapWaitFor == overlayHandleWaitFor

ShapePanWaitFor == IF overlayImpl = "part_000" THEN overlayHandleWaitFor ELSE {}

WaitSets ==
  {PinchWaitFor, CanvasPanWaitFor, MarqueeWaitFor, BackgroundTapWaitFor, ShapePanWaitFor}
  \cup (IF overlayImpl = "part_000" THEN {ShapeLongPressWaitFor, ShapeTapWaitFor} ELSE {})

\* C15: the wait set of every recognizer that is not a handle contains every
\* mounted handle recognizer.
C15_WaitSetsHoldMountedHandles ==
  mounted => \A W \in WaitSets : handlePanRefs(selectedId, editingId, shapes) \subseteq W

\* C16: a step that changes the selection from one shape to another, or adds a
\* shape and selects it, leaves handleWaitFor (the canvas pan's wait list) and
\* the handles of allInteractiveRefs (the background tap's) equal to the set of
\* the handle recognizers mounted for the new selection.
C16_WaitListsTrackMounting ==
  [][ /\ mounted'
      /\ selectedId' # selectedId
      /\ selectedId' # NULL
      /\ selectedId # NULL \/ Len(shapes') > Len(shapes)
      => /\ handleWaitFor' = handlePanRefs(selectedId', editingId', shapes')
         /\ allInteractiveRefs'.handles = handlePanRefs(selectedId', editingId', shapes') ]_vars

\* C17: the callback of the background tap has changed state for the touch that
\* landed last only if no shape tap, long press, shape pan or handle pan has
\* gone ACTIVE for that touch.
C17_BackgroundTapOnlyIfUnclaimed ==
  mounted /\ "background tap" \in touch.mutated => touch.activated = {}

\* a touch on the empty canvas whose background tap has deselected the shape
C17_Witness ==
  /\ mounted
  /\ touch.target[1] = "background"
  /\ touch.mutated = {"background tap"}
  /\ BgTap \notin armed
  /\ selectedId = NULL

\* translations inside the tap slop, its border included
SlopTranslation == { <<5, -3>>, <<-8, 8>>, <<0, 0>> }

\* n more movement events inside the slop, then the end of the gesture, call no
\* dragBy and leave the store as it is
RECURSIVE StaysPut(_, _, _)
StaysPut(w, id, n) ==
  /\ \A state \in Terminal : PanStateCallback(w, id, state).st.shapes = w.st.shapes
  /\ n > 0 =>
       \A t \in SlopTranslation :
         LET w1 == PanEventCallback(w, id, t[1], t[2])
         IN w1.st = w.st /\ ~w1.fresh /\ StaysPut(w1, id, n - 1)

\* C18: tap-vs-drag slop: from every state, a shape-pan gesture whose
\* translations all satisfy |translationX| <= 8 and |translationY| <= 8 calls no
\* dragBy, and every shape is at its end where it was at its start.
C18_SlopNoDrag ==
  mounted =>
    \A id \in ShapeIds(shapes) :
      LET w0 == [PanStateCallback(World, id, "BEGAN") EXCEPT !.fresh = FALSE]
      IN w0.st.shapes = shapes /\ StaysPut(w0, id, ProbeLen)

\* the pan of r1 is ACTIVE, its one movement event was inside the slop, and no
\* shape has moved
C18_Witness ==
  /\ mounted
  /\ panState["r1"] = "ACTIVE"
  /\ last["r1"] = <<5, -3>>
  /\ ~didDrag["r1"]
  /\ moves = 1
  /\ shapes = InitialShapes

\* translations past the tap slop
PastSlop == { <<30, -10>>, <<50, 20>> }

\* C19: shape drag deltas are incremental in every shape-pan implementation:
\* from every state, a pan's first movement event, past the slop, calls dragBy
\* with its translation over scale, and the next one with the difference of its
\* translation from that of the first over scale.
C19_DragDeltasIncremental ==
  mounted =>
    \A id \in ShapeIds(shapes), t1 \in PastSlop, t2 \in PastSlop :
      LET w0 == PanStateCallback(World, id, "BEGAN")
          w1 == PanEventCallback(w0, id, t1[1], t1[2])
          w2 == PanEventCallback(w1, id, t2[1], t2[2])
      IN /\ w1.st = dragBy(w0.st, ToWorld(t1[1], cam.scale), ToWorld(t1[2], cam.scale))
         /\ w2.st = dragBy(w1.st, ToWorld(t2[1] - t1[1], cam.scale),
                                   ToWorld(t2[2] - t1[2], cam.scale))

\* absolute positions of a finger on a handle, and camera scales that divide
\* their differences
HandlePositions == TouchDownAbs \cup TouchMoveAbs

Scales == { ScaleUnit, 2 * ScaleUnit, 5 * ScaleUnit }

RECURSIVE SumCalls(_)
SumCalls(calls) ==
  IF calls = <<>> THEN <<0, 0>>
  ELSE LET rest == SumCalls(Tail(calls))
       IN <<Head(calls)[1] + rest[1], Head(calls)[2] + rest[2]>>

\* n more movement events of the gesture of handle c that was pressed at press
\* and last seen at prev
RECURSIVE HandleDeltas(_, _, _, _, _, _)
HandleDeltas(w, c, press, prev, k, n) ==
  n > 0 =>
    \A a \in HandlePositions :
      \A d \in { <<ToWorld(a[1] - prev[1], k), ToWorld(a[2] - prev[2], k)>> } :
        \A calls \in { IF a = prev THEN w.resizeCalls ELSE Append(w.resizeCalls, d) } :
          \A w1 \in { ResizeHandle_onPan(w, c, a[1], a[2], "ACTIVE", k) } :
            /\ w1.resizeCalls = calls
            /\ ResizeHandle_onPan(w, c, a[1], a[2], "END", k).resizeCalls = calls
            /\ SumCalls(w1.resizeCalls)
                 = <<ToWorld(a[1] - press[1], k), ToWorld(a[2] - press[2], k)>>
            /\ HandleDeltas(w1, c, press, a, k, n - 1)

\* C20: in every state with handles mounted, a handle gesture that begins at
\* any position makes, for each movement event, one resizeBy call with the
\* difference from the previous position (that of BEGAN, then that of the
\* preceding event) over the scale, none for an event that did not move, and
\* the calls of the gesture sum to (last position - press position) over scale.
C20_HandleDeltas ==
  mounted /\ HandlesMounted =>
    \A c \in Corner, press \in TouchDownAbs, k \in Scales :
      \A w0 \in { ResizeHandle_onState(World, selectedId, c, "BEGAN", press[1], press[2]) } :
        w0.resizeCalls = <<>> /\ HandleDeltas(w0, c, press, press, k, ProbeLen)

C20_Witness ==
  /\ mounted /\ HandlesMounted
  /\ handleState["se"] = "ACTIVE" /\ lastAbs["se"] = <<130, 90>>
  /\ resizingRef = [id |-> selectedId, corner |-> "se"]

\* ------------------------------------------------------------ claims: camera
\* what the events of the canvas pan would do in the current state
PanEventsFromSnapshot ==
  /\ canvasPanState = "ACTIVE" =>
       /\ \E t \in CanvasTranslation :
            cam.tx = panStart.tx + t[1] /\ cam.ty = panStart.ty + t[2]
       /\ \A t \in CanvasTranslation :
            LET c1 == onCanvasPanEvent(cam, panStart, t[1], t[2])
            IN /\ c1 = [tx |-> panStart.tx + t[1], ty |-> panStart.ty + t[2],
                        scale |-> cam.scale]
               /\ onCanvasPanEvent(c1, panStart, t[1], t[2]) = c1
  /\ canvasPanState = "BEGAN" =>
       onCanvasPanEvent(cam, onCanvasPanState(cam, panStart, "ACTIVE"), 0, 0) = cam

\* C21: the canvas pan stores the camera's (tx, ty) when it goes ACTIVE and
\* keeps it for the gesture; every movement event of the gesture leaves
\* (tx, ty) = stored (tx, ty) + the event's translation, so an event repeated
\* changes nothing and a gesture that starts with translation 0 leaves the
\* camera where it was; no pan event changes the scale, and the scale changes
\* only in steps of an active pinch.
C21_PanFromSnapshot ==
  /\ [][ canvasPanState = "BEGAN" /\ canvasPanState' = "ACTIVE"
          => panStart' = [tx |-> cam.tx, ty |-> cam.ty] /\ cam' = cam ]_vars
  /\ [][ canvasPanState = "ACTIVE" /\ canvasPanState' = "ACTIVE"
          => panStart' = panStart ]_vars
  /\ [][ pinchState # "ACTIVE" => cam'.scale = cam.scale ]_vars
  /\ []PanEventsFromSnapshot

\* the second pan gesture has moved the camera on from where the first left it
C21_Witness ==
  /\ canvasPanState = "ACTIVE"
  /\ panStart = [tx |-> 30, ty |-> -10]
  /\ cam.tx = 60 /\ cam.ty = -20

\* min(5, max(0.2, start * factor)) in units of 1 / ScaleUnit, start in the
\* same units and factor a fraction
ClampedScale(start, factor) ==
  IF start * factor[1] > 5 * ScaleUnit * factor[2] THEN 5 * ScaleUnit
  ELSE IF 5 * start * factor[1] < ScaleUnit * factor[2] THEN ScaleUnit \div 5
  ELSE (start * factor[1]) \div factor[2]

\* what the events of the pinch would do in the current state
PinchEventsClamped ==
  /\ ScaleUnit <= 5 * cam.scale /\ cam.scale <= 5 * ScaleUnit
  /\ ScaleUnit <= 5 * pinchStart.scale /\ pinchStart.scale <= 5 * ScaleUnit
  /\ \A f \in PinchFactor \ {NaN} :
       onCanvasPinchEvent(cam, pinchStart, f)
         = [tx |-> cam.tx, ty |-> cam.ty, scale |-> ClampedScale(pinchStart.scale, f)]
  /\ onCanvasPinchEvent(cam, pinchStart, NaN) = cam
  /\ onCanvasPinchEvent(cam, [scale |-> ScaleUnit], <<100, 1>>).scale = 5 * ScaleUnit
  /\ 5 * onCanvasPinchEvent(cam, [scale |-> ScaleUnit], <<1, 10000>>).scale = ScaleUnit

\* C22: the camera scale is always in [0.2, 5]; the pinch stores the scale
\* when it goes ACTIVE and each of its events sets the scale to
\* min(5, max(0.2, stored scale * the event's factor)), so from 1 a factor of
\* 100 gives 5 and a factor of 0.0001 gives 0.2; tx and ty change only in steps
\* of an active canvas pan, never by a pinch.
C22_ZoomClamp ==
  /\ [][ pinchState = "BEGAN" /\ pinchState' = "ACTIVE"
          => pinchStart' = [scale |-> cam.scale] /\ cam' = cam ]_vars
  /\ [][ pinchState = "ACTIVE" /\ pinchState' = "ACTIVE"
          => pinchStart' = pinchStart ]_vars
  /\ [][ canvasPanState # "ACTIVE" => cam'.tx = cam.tx /\ cam'.ty = cam.ty ]_vars
  /\ []PinchEventsClamped

\* the second pinch has taken the scale from 5 to 0.2
C22_Witness ==
  /\ pinchState = "ACTIVE"
  /\ pinchStart.scale = 5 * ScaleUnit
  /\ 5 * cam.scale = ScaleUnit

\* ----------------------------------------------------------- claims: marquee
\* the shapes A and B of the example
ExampleShapes ==
  << [id |-> "A", kind |-> "rect", x |-> 0, y |-> 0, w |-> 50, h |-> 50],
     [id |-> "B", kind |-> "rect", x |-> 100, y |-> 100, w |-> 50, h |-> 50] >>

IdentityCamera == [tx |-> 0, ty |-> 0, scale |-> ScaleUnit]

Rectangle(x0, y0, x1, y1) == [active |-> TRUE, x0 |-> x0, y0 |-> y0, x1 |-> x1, y1 |-> y1]

\* marquees around, across, inside and away from the initial shapes, dragged in
\* either direction, and cameras that pan and zoom
ProbeMarquees ==
  { Rectangle(-130, -90, 50, 30), Rectangle(50, 130, -130, -90),
    Rectangle(-100, -60, 0, 0), Rectangle(-100, -100, 100, 100),
    Rectangle(-120, -80, 40, 20), Rectangle(300, 300, 300, 300) }

ProbeCameras ==
  { IdentityCamera, [tx |-> 30, ty |-> -10, scale |-> ScaleUnit],
    [tx |-> 0, ty |-> 0, scale |-> ScaleUnit \div 5],
    [tx |-> -10, ty |-> 0, scale |-> 2 * ScaleUnit] }

\* the shapes of ss whose screen rectangle under camera c lies within the
\* normalized marquee m; every term is multiplied by ScaleUnit
Contained(m, ss, c) ==
  { ss[i].id : i \in { j \in DOMAIN ss :
      LET left == ss[j].x * c.scale + c.tx * ScaleUnit
          top == ss[j].y * c.scale + c.ty * ScaleUnit
          right == left + ss[j].w * c.scale
          bottom == top + ss[j].h * c.scale
      IN /\ left >= ScaleUnit * (IF m.x0 <= m.x1 THEN m.x0 ELSE m.x1)
         /\ right <= ScaleUnit * (IF m.x0 <= m.x1 THEN m.x1 ELSE m.x0)
         /\ top >= ScaleUnit * (IF m.y0 <= m.y1 THEN m.y0 ELSE m.y1)
         /\ bottom <= ScaleUnit * (IF m.y0 <= m.y1 THEN m.y1 ELSE m.y0) } }

\* what the release of a marquee would select in the current state
ReleaseSelectsContained ==
  /\ \A m \in ProbeMarquees, c \in ProbeCameras :
       LET w1 == onBgMarqueePanState([World EXCEPT !.selectMode = TRUE, !.marquee = m],
                                     "END", 0, 0, c)
       IN /\ w1.selectedIds = Contained(m, shapes, c)
          /\ w1.marquee = NoMarquee
          /\ w1.st = Store
  /\ \A state \in Terminal :
       marquee.active /\ selectMode =>
         LET w1 == onBgMarqueePanState(World, state, 0, 0, cam)
         IN /\ w1.selectedIds = Contained(marquee, shapes, cam)
            /\ w1.marquee = NoMarquee
            /\ w1.st = Store
  /\ InsideMarquee(Rectangle(0, 0, 60, 60), ExampleShapes, IdentityCamera) = {"A"}
  /\ InsideMarquee(Rectangle(0, 0, 200, 200), ExampleShapes, IdentityCamera) = {"A", "B"}
  /\ InsideMarquee(Rectangle(10, 10, 40, 40), ExampleShapes, IdentityCamera) = {}

\* C23: when the marquee pan reports END, CANCELLED or FAILED in select mode
\* with the marquee open, selectedIds becomes exactly the set of the shapes
\* whose screen rectangle lies within the normalized marquee, shapes that only
\* intersect it or contain it excluded, and the marquee closes; the three
\* examples of shapes A and B give {A}, {A, B} and {}.
C23_MarqueeContainment ==
  /\ [][ mounted' /\ marquee.active /\ ~marquee'.active
          => selectedIds' = Contained(marquee, shapes, cam) /\ shapes' = shapes ]_vars
  /\ []ReleaseSelectsContained

\* zoomed out to 0.2, the marquee from (100, 100) to (-100, -100) was released
\* around the three initial shapes
C23_Witness ==
  /\ ~marquee.active
  /\ 5 * cam.scale = ScaleUnit
  /\ selectedIds = {"r1", "e1", "t1"}

\* the state a marquee press at (px, py) must leave
Pressed(st, ed, ids, m, px, py) ==
  /\ st.selectedId = NULL
  /\ ids = {}
  /\ ed = NULL
  /\ ResizeClosedIn(st)
  /\ m = [active |-> TRUE, x0 |-> px, y0 |-> py, x1 |-> px, y1 |-> py]

\* what a press and the movement events of the marquee pan would do in the
\* current state, were select mode on
PressOpensMarquee ==
  mounted =>
    /\ \A p \in HandlePositions :
         LET w0 == [World EXCEPT !.selectMode = TRUE]
             w1 == onBgMarqueePanState(w0, "BEGAN", p[1], p[2], cam)
             st == SelectionEffect(selectedId, w1.st)
         IN /\ Pressed(st, w1.editingId, w1.selectedIds, w1.marquee, p[1], p[2])
            /\ st.shapes = shapes
            /\ \A a \in HandlePositions :
                 onBgMarqueePanEvent(w1, a[1], a[2])
                   = [w1 EXCEPT !.marquee.x1 = a[1], !.marquee.y1 = a[2]]
    /\ \A a \in HandlePositions :
         onBgMarqueePanEvent(World, a[1], a[2])
           = IF selectMode /\ marquee.active
             THEN [World EXCEPT !.marquee.x1 = a[1], !.marquee.y1 = a[2]]
             ELSE World

\* C24: the step in which the marquee pan reports BEGAN at (px, py) in select
\* mode leaves selectedId null, selectedIds empty, editingId null, no resize
\* session and the marquee active with both corners at (px, py); a movement
\* event of the marquee pan changes x1 and y1 of the marquee and nothing else;
\* neither changes the shapes or the camera.
C24_MarqueePress ==
  /\ [][ marqueeState = "UNDETERMINED" /\ marqueeState' = "BEGAN"
          => /\ \E p \in TouchDownAbs :
                  Pressed(Store', editingId', selectedIds', marquee', p[1], p[2])
             /\ shapes' = shapes /\ cam' = cam ]_vars
  /\ [][ marqueeState = "ACTIVE" /\ marqueeState' = "ACTIVE" /\ marquee' # marquee
          => /\ marquee' = [marquee EXCEPT !.x1 = marquee'.x1, !.y1 = marquee'.y1]
             /\ UNCHANGED <<storeVars, cam, editingId, selectedIds, selectMode>> ]_vars
  /\ []PressOpensMarquee

\* the marquee opened at (100, 100) has been dragged to (130, 90)
C24_Witness ==
  /\ mounted /\ selectMode /\ marqueeState = "ACTIVE"
  /\ marquee = [active |-> TRUE, x0 |-> 100, y0 |-> 100, x1 |-> 130, y1 |-> 90]
  /\ selectedId = NULL /\ selectedIds = {} /\ editingId = NULL

\* C25: the marquee is active only while the marquee pan is in progress, and
\* when the gesture ends (END, CANCELLED or FAILED) it is no longer active, also
\* when the select-mode toggle was pressed while the marquee was active.
C25_MarqueeLifetime ==
  mounted =>
    /\ marquee.active => InProgress(marqueeState)
    /\ marquee.active /\ InProgress(marqueeState) =>
         \A state \in TerminalFrom(marqueeState), a \in TouchMoveAbs :
           /\ ~onBgMarqueePanState(World, state, a[1], a[2], cam).marquee.active
           /\ ~onBgMarqueePanState(toggleSelectMode(World), state, a[1], a[2], cam).marquee.active

\* ------------------------------------------------- claims: gesture enabling
\* C26: in every state of the mounted canvas the canvas pan recognizer is
\* disabled if and only if select mode is on, or a resize session is open, or
\* the marquee is active.
C26_CanvasPanDisabledIff ==
  mounted =>
    (~canvasPanEnabled <=> (selectMode \/ ResizeOpen(Store) \/ marquee.active))

\* a handle was pressed while the canvas pan was tracking a finger
C26_Witness ==
  /\ mounted /\ ~canvasPanEnabled
  /\ canvasPanState = "BEGAN"
  /\ ResizeOpen(Store) /\ ~selectMode /\ ~marquee.active

\* C27: no step taken while a resize session is open changes the camera
\* scale: the pinch is disabled from beginResize to the matching endResize.
C27_NoPinchDuringResize ==
  [][ ResizeOpen(Store) => cam'.scale = cam.scale ]_vars

\* ------------------------------------------------------- claims: selection
\* what a state change of the background tap would do in the current state
BackgroundTapEffect ==
  mounted =>
    /\ LET w1 == onBackgroundTap(World, "END")
           st == SelectionEffect(selectedId, w1.st)
       IN /\ st.selectedId = NULL /\ w1.editingId = NULL /\ w1.selectedIds = {}
          /\ ResizeClosedIn(st)
          /\ st.shapes = shapes
          /\ w1.marquee = marquee /\ w1.selectMode = selectMode
    /\ \A state \in {"UNDETERMINED", "BEGAN", "ACTIVE", "CANCELLED", "FAILED"} :
         onBackgroundTap(World, state) = World

\* C28: the step in which the background tap reports END leaves selectedId
\* null, editingId null, selectedIds empty and no resize session, and the same
\* shape list and camera; a background-tap state change other than END changes
\* nothing.
C28_BackgroundTapClears ==
  /\ [][ BackgroundTap
          => /\ selectedId' = NULL /\ editingId' = NULL /\ selectedIds' = {}
             /\ ResizeClosed'
             /\ shapes' = shapes /\ cam' = cam ]_vars
  /\ [][ BackgroundTapBegan
          => UNCHANGED <<storeVars, cam, editingId, selectedIds, marquee, selectMode>> ]_vars
  /\ []BackgroundTapEffect

\* a tap on the background has deselected the rect added from the toolbar
C28_Witness ==
  /\ mounted /\ touch.target[1] = "background"
  /\ "background tap" \in touch.mutated
  /\ Len(shapes) = Len(InitialShapes) + 1
  /\ selectedId = NULL /\ editingId = NULL /\ selectedIds = {}

\* what the tap and the edit trigger of each overlay would leave, from the
\* current state
ShapeSelectionEffect ==
  mounted =>
    \A id \in ShapeIds(shapes) :
      /\ LET w1 == onSingleTapActivated(World, id)
             st == SelectionEffect(selectedId, w1.st)
         IN st.selectedId = id /\ w1.selectedIds = {} /\ w1.editingId = editingId
      /\ LET w1 == onEdit(World, id)
             st == SelectionEffect(selectedId, w1.st)
         IN st.selectedId = id /\ w1.selectedIds = {} /\ w1.editingId = id

\* C29: a tap on the overlay of shape s leaves selectedId = s and selectedIds
\* empty; the edit trigger (long press) on s leaves selectedId = s, selectedIds
\* empty and editingId = s, and fires only while no resize session is open.
C29_ShapeSoleSelection ==
  /\ [][ \A id \in ShapeIds(shapes) :
            ShapeTap(id) => selectedId' = id /\ selectedIds' = {} ]_vars
  /\ [][ \A id \in ShapeIds(shapes) :
            ShapeLongPress(id)
              => /\ selectedId' = id /\ selectedIds' = {} /\ editingId' = id
                 /\ ~ResizeOpen(Store) ]_vars
  /\ []ShapeSelectionEffect

\* a long press on a shape has opened its editor
C29_Witness ==
  /\ mounted /\ "edit" \in touch.mutated
  /\ editingId \in ShapeIds(shapes) /\ selectedId = editingId /\ selectedIds = {}

\* ------------------------------------------------------ claims: identities
\* C30: after any sequence of addRect, addEllipse and addText calls, with or
\* without a partial argument, the ids of the shapes in the store are pairwise
\* distinct.
C30_UniqueIds ==
  \A i, j \in DOMAIN shapes : i # j => shapes[i].id # shapes[j].id

\* the id and the kind of each shape, in list order
Identities(ss) == [i \in DOMAIN ss |-> <<ss[i].id, ss[i].kind>>]

\* ss with one shape of the given id and kind appended
AppendsOne(ss, tt, id, kind) ==
  /\ Len(tt) = Len(ss) + 1
  /\ SubSeq(tt, 1, Len(ss)) = ss
  /\ tt[Len(tt)].id = id /\ tt[Len(tt)].kind = kind

\* what each operation of the store would do to the list, from the current state
ListEffects ==
  /\ \A rnd \in RandomSuffix :
       /\ \A p \in RectPartials :
            AppendsOne(shapes, addRect(Store, p, rnd).shapes, newId("rect_", p, rnd), "rect")
       /\ \A p \in EllipsePartials :
            AppendsOne(shapes, addEllipse(Store, p, rnd).shapes,
                       newId("ellipse_", p, rnd), "ellipse")
       /\ \A p \in TextPartials :
            AppendsOne(shapes, addText(Store, p, rnd).shapes, newId("text_", p, rnd), "text")
  /\ \A id \in ShapeIds(shapes) \cup {NULL} : select(Store, id).shapes = shapes
  /\ \A id \in ShapeIds(shapes) :
       /\ beginDrag(Store, id).shapes = shapes
       /\ \A c \in Corner : beginResize(Store, id, c).shapes = shapes
       /\ \A t \in Texts :
            Identities(setShapeText(Store, id, t).shapes) = Identities(shapes)
  /\ endDrag(Store).shapes = shapes
  /\ endResize(Store).shapes = shapes
  /\ \A d \in Delta :
       /\ Identities(dragBy(Store, d[1], d[2]).shapes) = Identities(shapes)
       /\ Identities(resizeBy(Store, d[1], d[2]).shapes) = Identities(shapes)

\* C31: the shape list is append-only.  A call of addRect, addEllipse or addText
\* appends exactly one shape, whose id is the one the call returns, after the
\* shapes there were, which it leaves as they are and in their order; a call of
\* any other operation leaves the length of the list and the id and kind of
\* every position.
C31_AppendOnly ==
  /\ [][ CallAddRect \/ CallAddEllipse \/ CallAddText
          => Len(shapes') = Len(shapes) + 1 /\ SubSeq(shapes', 1, Len(shapes)) = shapes ]_vars
  /\ [][ Len(shapes') = Len(shapes) + 1 \/ Identities(shapes') = Identities(shapes) ]_vars
  /\ [][ Len(shapes') # Len(shapes) => CallAddRect \/ CallAddEllipse \/ CallAddText ]_vars
  /\ []ListEffects

\* an ellipse was added after a shape was dragged: the earlier shapes kept
\* their places
C31_Witness ==
  /\ Len(shapes) = Len(InitialShapes) + 1
  /\ shapes[Len(shapes)].kind = "ellipse"
  /\ Identities(SubSeq(shapes, 1, Len(InitialShapes))) = Identities(InitialShapes)
  /\ shapes[1].x # InitialShapes[1].x

\* ------------------------------------------------------------ claims: text
\* ids and texts offered to setShapeText: ids no shape has, texts shapes have
ProbeIds == {"nope", "", NULL}

ProbeTexts == Texts \cup {"", "Rect"}

\* st2 is st with the text of the shapes of that id set to text and nothing
\* else changed
TextSet(st, st2, id, text) ==
  /\ Len(st2.shapes) = Len(st.shapes)
  /\ \A i \in DOMAIN st.shapes :
       IF st.shapes[i].id = id
       THEN /\ DOMAIN st2.shapes[i] = DOMAIN st.shapes[i]
            /\ st2.shapes[i].text = text
            /\ \A f \in DOMAIN st.shapes[i] \ {"text"} : st2.shapes[i][f] = st.shapes[i][f]
       ELSE st2.shapes[i] = st.shapes[i]
  /\ st2.selectedId = st.selectedId /\ st2.draggingId = st.draggingId
  /\ st2.resizingRef = st.resizingRef /\ st2.isResizing = st.isResizing

SetShapeTextEffect ==
  \A text \in ProbeTexts :
    /\ \A id \in ShapeIds(shapes) \cup ProbeIds :
         /\ TextSet(Store, setShapeText(Store, id, text), id, text)
         /\ id \notin ShapeIds(shapes) => setShapeText(Store, id, text) = Store
    /\ \A id \in ShapeIds(shapes) \cup {NULL} :
         LET w1 == commitEditing([World EXCEPT !.editingId = id], text)
         IN /\ w1.editingId = NULL
            /\ IF id = NULL THEN w1.st = Store ELSE TextSet(Store, w1.st, id, text)

\* C32: setShapeText(id, text) sets the text of the shape with that id to text,
\* whatever the text was and whatever session is open or shape being edited,
\* changes no other field of it, no other shape and nothing else in the store,
\* and changes nothing when no shape has that id.
C32_SetShapeTextOverwrites ==
  /\ [][ CallSetShapeText
          => \E id \in ShapeIds(shapes), text \in Texts :
               /\ TextSet(Store, Store', id, text)
               /\ \E i \in DOMAIN shapes : shapes'[i].id = id /\ shapes'[i].text = text ]_vars
  /\ []SetShapeTextEffect

\* the text of e1 was set while r1 was being resized
C32_Witness ==
  /\ ResizeOpen(Store) /\ resizingRef.id = "r1"
  /\ shapes[2].id = "e1" /\ shapes[2].text \in Texts
  /\ shapes[1].text = InitialShapes[1].text

\* ------------------------------------------------- claims: non-finite input
\* every coordinate of every shape is a finite number
FiniteShapes ==
  \A i \in DOMAIN shapes :
    IsFinite(shapes[i].x) /\ IsFinite(shapes[i].y) /\ IsFinite(shapes[i].w) /\ IsFinite(shapes[i].h)

\* C33: an event (movement or BEGAN) of a shape pan, a handle pan or the
\* marquee that carries NaN leaves shapes, camera and marquee as they are, and
\* no later event leaves a shape with a non-finite coordinate.
C33_NonFiniteDiscarded ==
  /\ [][ DegenerateEvent => shapes' = shapes /\ cam' = cam /\ marquee' = marquee ]_vars
  /\ []FiniteShapes

\* ----------------------------------------------- claims: resize and selection
\* the shapes of tt that differ from those of ss have the id sel
OnlyChanges(ss, tt, sel) ==
  /\ Len(tt) = Len(ss)
  /\ \A i \in DOMAIN ss : tt[i] # ss[i] => ss[i].id = sel

\* the open session, the mounted handles and what their callbacks and the
\* callbacks that change the selection would leave, from the current state
ResizeFollowsSelection ==
  mounted =>
    /\ ResizeOpen(Store) => resizingRef.id = selectedId
    /\ \A k \in handlePanRefs(selectedId, editingId, shapes) : k[1] = selectedId
    /\ \A c \in Corner, a \in TouchMoveAbs :
         OnlyChanges(shapes, ResizeHandle_onPan(World, c, a[1], a[2], "ACTIVE", cam.scale).st.shapes,
                     selectedId)
    /\ \A w \in SelectionChanges :
         LET st == SelectionEffect(selectedId, w.st)
         IN ResizeOpen(st) => st.resizingRef.id = st.selectedId

\* C34: an open resize session is one of the selected shape: handles are
\* mounted for the selected shape only, whatever callback changes the selection
\* leaves no session of another shape after its render and effects, and a step
\* that changes the size of a shape changes that of the selected shape only.
C34_ResizeTargetsSelection ==
  /\ [][ \A i \in DOMAIN shapes :
            shapes'[i].w # shapes[i].w \/ shapes'[i].h # shapes[i].h
              => shapes[i].id = selectedId /\ selectedId' = selectedId ]_vars
  /\ []ResizeFollowsSelection

\* the rect added from the toolbar is selected and the gesture of one of its
\* handles has resized it; the other shapes are as they were
C34_Witness ==
  /\ mounted /\ ResizeOpen(Store) /\ resizingRef.id = selectedId
  /\ Len(shapes) = Len(InitialShapes) + 1
  /\ shapes[Len(shapes)].id = selectedId
  /\ shapes[Len(shapes)].w # 160
  /\ SubSeq(shapes, 1, Len(InitialShapes)) = InitialShapes

\* isResizing says what the session record says
FlagMatchesSession ==
  isResizing <=> (resizingRef.id # NULL /\ resizingRef.corner # NULL)

\* C35: isResizing is true exactly when the session record has a non-null id
\* and a non-null corner; a beginResize call sets both, an endResize call clears
\* both, and a call of any other operation leaves both as they are.
C35_FlagAgreesWithSession ==
  /\ [][ CallBeginResize
          => isResizing' /\ resizingRef'.id # NULL /\ resizingRef'.corner # NULL ]_vars
  /\ [][ CallEndResize
          => ~isResizing' /\ resizingRef' = [id |-> NULL, corner |-> NULL] ]_vars
  /\ [][ ~(CallBeginResize \/ CallEndResize) => UNCHANGED <<resizingRef, isResizing>> ]_vars
  /\ []FlagMatchesSession

\* a resize session of e1 is open next to a drag session, after a resizeBy
C35_Witness ==
  /\ isResizing /\ resizingRef = [id |-> "e1", corner |-> "nw"]
  /\ draggingId = "r1"
  /\ shapes[2].w # InitialShapes[2].w

\* ----------------------------------------------------------- claims: editing
\* the shape being edited has no mounted handle and its overlay takes no touch
EditedShapeUntouchable ==
  mounted /\ editingId # NULL =>
    /\ \A k \in handlePanRefs(selectedId, editingId, shapes) : k[1] # editingId
    /\ ~OverlayEnabled(editingId)

\* C36: while editingId = s, the shape s has no mounted handle and its overlay
\* accepts no touch: no touch lands on the body or on a handle of s, no BEGAN
\* callback of the pan or of a handle of s runs, and no drag or resize session
\* of s opens, from the step that starts the editing until editingId is
\* cleared.
C36_NoManipulationWhileEditing ==
  /\ [][ \A id \in ShapeIds(shapes) :
            TouchBody(id) \/ ShapePanBegan(id) => editingId # id ]_vars
  /\ [][ \A c \in Corner :
            TouchHandle(c) \/ TouchHandleOverBody(c) \/ (HandlesMounted /\ HandleBegan(c))
              => editingId # selectedId ]_vars
  /\ [][ editingId # NULL /\ editingId' = editingId
          => /\ draggingId' = editingId => draggingId = editingId
             /\ resizingRef'.id = editingId => resizingRef.id = editingId ]_vars
  /\ []EditedShapeUntouchable

\* r1 is being edited and a second finger has started a drag of e1
C36_Witness ==
  /\ mounted /\ editingId = "r1" /\ draggingId = "e1"

\* ------------------------------------------------ claims: gesture arbitration
\* the recognizers reached from those of S along at most n wait-for edges
RECURSIVE WaitsForWithin(_, _, _)
WaitsForWithin(tree, S, n) ==
  IF n = 0 THEN S
  ELSE WaitsForWithin(tree, S \cup UNION { WaitFor(tree, r) : r \in S }, n - 1)

\* every recognizer a wait list names, rendered or not
Named(tree) ==
  Recognizers(tree) \cup UNION { WaitFor(tree, r) : r \in Recognizers(tree) }

\* no recognizer waits, directly or through others, for itself
Acyclic(tree) ==
  \A r \in Named(tree) :
    r \notin WaitsForWithin(tree, WaitFor(tree, r), Cardinality(Named(tree)))

\* recognizer r is not in the way of one that waits for it: it has failed,
\* ended or been cancelled, or it is not rendered
Over(r) ==
  CASE r[1] = "pan" -> r[2] \in DOMAIN panState => ~InProgress(panState[r[2]])
    [] r[1] = "handle" ->
         <<r[2], r[3]>> \in handlePanRefs(selectedId, editingId, shapes)
           => ~InProgress(handleState[r[3]])
    [] r[1] \in {"tap", "longpress"} -> <<r[1], r[2]>> \notin armed
    [] OTHER -> TRUE

\* a tap fires and a shape pan activates only when all they wait for are over
WaitsRespected ==
  /\ BackgroundTap => \A r \in WaitFor(overlayImpl, <<"bgtap", "", "">>) : Over(r)
  /\ \A id \in ShapeIds(shapes) :
       /\ ShapeTap(id) => \A r \in WaitFor(overlayImpl, <<"tap", id, "">>) : Over(r)
       /\ ShapePanActive(id) => \A r \in WaitFor(overlayImpl, <<"pan", id, "">>) : Over(r)

\* no callback is queued, no tap is tracking a touch, no pan is in progress
AllQuiet ==
  /\ pending = <<>>
  /\ armed = {}
  /\ \A id \in DOMAIN panState : ~InProgress(panState[id])
  /\ \A c \in Corner : ~InProgress(handleState[c])
  /\ ~InProgress(marqueeState)

\* in each of the three gesture trees an overlay is rendered with
AcyclicEverywhere ==
  \A tree \in {"part_000", "InfiniteCanvas.tsx", "ShapeOverlay.tsx"} : Acyclic(tree)

\* C37: the wait-for relation among the recognizers is acyclic in every gesture
\* tree, a recognizer acts only when those it waits for are over, and whenever
\* some recognizer is tracking a touch, eventually every recognizer has reached
\* a terminal state: none waits forever.
C37_NoRecognizerWaitsForever ==
  /\ []AcyclicEverywhere
  /\ [][WaitsRespected]_vars
  /\ ~AllQuiet ~> AllQuiet

\* the background tap is tracking a touch and waits for a shape pan or a
\* handle that is in progress
C37_Witness ==
  /\ mounted
  /\ BgTap \in armed
  /\ \E r \in WaitFor(overlayImpl, <<"bgtap", "", "">>) :
       r[1] \in {"pan", "handle"} /\ ~Over(r)

\* ------------------------------------------------------ claims: the tap slop
\* translations inside the 8px box, translations that leave it, and the
\* translations of the events after those; all even, so that the scales below
\* divide their differences
SubSlop == { <<4, -2>>, <<-6, 8>> }

Exceeding == { <<30, -10>>, <<2, 10>> }

Later == { <<2, -4>>, <<40, 0>> }

\* camera scales 0.2, 1 and 2
SlopScales == { 1, ScaleUnit, 2 * ScaleUnit }

\* the sequences of at most n members of S
Runs(S, n) == UNION { [1..k -> S] : k \in 0..n }

\* v / camScale is a whole number of world units
Exact(v, camScale) == (v * ScaleUnit) % camScale = 0

\* the movement events of run, from the i-th on, delivered to the pan of shape id
RECURSIVE RunPan(_, _, _, _, _)
RunPan(w, id, run, i, camScale) ==
  IF i > Len(run) THEN w
  ELSE RunPan(ShapeOverlay_onPan(w, id, run[i][1], run[i][2], camScale),
              id, run, i + 1, camScale)

\* the translation of the last event of run, or t if there is none
LastOf(run, t) == IF run = <<>> THEN t ELSE run[Len(run)]

\* the pan of shape id has not left the slop and its drag session is open;
\* last[id] is the translation of its last event, <<0, 0>> at BEGAN
InsideSlop(id) ==
  /\ mounted
  /\ overlayImpl = "part_000"
  /\ InProgress(panState[id])
  /\ ~didDrag[id]
  /\ draggingId = id

\* C38: sub-slop movement is dropped, not replayed: in a shape-pan gesture at
\* constant scale, the events inside the slop move nothing; after the event
\* that leaves the slop and any events after it, inside the 8px box or not, the
\* dragged shape has moved by (final translation - translation of the last
\* suppressed event) / scale, and the slop stays exceeded.
C38_SubSlopDropped ==
  \A id \in ShapeIds(shapes) :
    InsideSlop(id) =>
      \A camScale \in { c \in SlopScales : Exact(last[id][1], c) /\ Exact(last[id][2], c) },
         sub \in Runs(SubSlop, ProbeLen), e \in Exceeding, later \in Runs(Later, ProbeLen) :
        LET w1 == RunPan(World, id, sub, 1, camScale)
            w2 == ShapeOverlay_onPan(w1, id, e[1], e[2], camScale)
            w3 == RunPan(w2, id, later, 1, camScale)
            ref == LastOf(sub, last[id])
            fin == LastOf(later, e)
        IN /\ w1.st = World.st
           /\ ~w1.didDrag[id]
           /\ w1.last[id] = ref
           /\ w2.didDrag[id]
           /\ w3.didDrag[id]
           /\ w3.st = dragBy(World.st, ToWorld(fin[1] - ref[1], camScale),
                                       ToWorld(fin[2] - ref[2], camScale))

\* the one movement event of the pan of r1 was suppressed at translation
\* <<5, -3>>, and an event at <<30, -10>> would move r1 by <<25, -7>>
C38_Witness ==
  /\ InsideSlop("r1")
  /\ panState["r1"] = "ACTIVE"
  /\ last["r1"] = <<5, -3>>
  /\ \E i \in DOMAIN shapes :
       /\ shapes[i].id = "r1"
       /\ LET s == ShapeOverlay_onPan(World, "r1", 30, -10, ScaleUnit).st.shapes[i]
          IN s.x = shapes[i].x + 25 /\ s.y = shapes[i].y - 7

\* ---------------------------------------------- claims: marquee direction
\* press and release points of a marquee
MarqueePoints == { <<-130, -90>>, <<50, 30>>, <<100, 100>>, <<-100, -100>> }

\* a camera zoomed out to 0.2 and shifted
MarqueeCameras == { [tx |-> 30, ty |-> -10, scale |-> ScaleUnit \div 5] }

\* what a marquee pressed at p, dragged to q and released selects in the
\* current state under camera c, were select mode on
Dragged(p, q, c) ==
  LET w0 == [World EXCEPT !.selectMode = TRUE]
      w1 == onBgMarqueePanState(w0, "BEGAN", p[1], p[2], c)
      w2 == onBgMarqueePanEvent(w1, q[1], q[2])
  IN onBgMarqueePanState(w2, "END", q[1], q[2], c).selectedIds

\* what a marquee pressed at p and released without a movement event selects
Pressed_Released(p, c) ==
  LET w0 == [World EXCEPT !.selectMode = TRUE]
      w1 == onBgMarqueePanState(w0, "BEGAN", p[1], p[2], c)
  IN onBgMarqueePanState(w1, "END", p[1], p[2], c).selectedIds

PositiveSizes == \A i \in DOMAIN shapes : shapes[i].w > 0 /\ shapes[i].h > 0

\* C39: marquee selection depends only on the rectangle, not on the drag
\* direction: in every state and under every camera a marquee dragged from p
\* to q selects the shapes inside the rectangle of p and q whichever two
\* opposite corners of it are taken as press and release points, so what one
\* dragged from q to p selects; a marquee with p = q selects no shape when
\* every shape has w > 0 and h > 0.
C39_MarqueeDirectionFree ==
  mounted =>
    \A c \in MarqueeCameras \cup {cam}, p \in MarqueePoints :
      /\ \A q \in MarqueePoints :
           LET d == Dragged(p, q, c)
           IN /\ d = InsideMarquee(Rectangle(p[1], p[2], q[1], q[2]), shapes, c)
              /\ d = InsideMarquee(Rectangle(q[1], q[2], p[1], p[2]), shapes, c)
              /\ d = InsideMarquee(Rectangle(p[1], q[2], q[1], p[2]), shapes, c)
              /\ d = InsideMarquee(Rectangle(q[1], p[2], p[1], q[2]), shapes, c)
              /\ PositiveSizes /\ p = q => d = {}
      /\ PositiveSizes => Pressed_Released(p, c) = {}

\* a marquee dragged up and to the left is open around a shape, and the same
\* rectangle dragged down and to the right selects that shape too
C39_Witness ==
  /\ mounted
  /\ marquee.active
  /\ marquee.x1 < marquee.x0
  /\ marquee.y1 < marquee.y0
  /\ onBgMarqueePanState(World, "END", marquee.x1, marquee.y1, cam).selectedIds # {}
  /\ Dragged(<<marquee.x1, marquee.y1>>, <<marquee.x0, marquee.y0>>, cam)
       = onBgMarqueePanState(World, "END", marquee.x1, marquee.y1, cam).selectedIds

====
